---- MODULE Spec2Model ----
(***************************************************************************)
(* paranoid.js: flattening of the dependency graph, reconciliation of the  *)
(* collected specs and validation of the resolved versions against the     *)
(* allow / deny / allowFrom policy and the minimum-age threshold; the run   *)
(* of main from the configuration to the exit code.                        *)
(*                                                                         *)
(* A version is a triple <<major, minor, patch>>.  A spec is a record      *)
(* [op, v]: "^" caret, "~" tilde, "=" exact version, "*" any version.      *)
(* A JS Set is a sequence without duplicates (insertion order), a JS Map   *)
(* a function whose DOMAIN is the key set; an undefined optional Map is    *)
(* the empty function, on which `?.get` answers null as well.              *)
(* Time is counted in ticks, TicksPerDay ticks to a day.                   *)
(***************************************************************************)
EXTENDS Integers, Sequences, FiniteSets, TLC

VARIABLES pc, tree, config, dependencies, packuments, vulnerabilities, now, validations,
          options, lockfile, requests, advisories, output, exitCode, stack

vars == <<pc, tree, config, dependencies, packuments, vulnerabilities, now, validations,
          options, lockfile, requests, advisories, output, exitCode, stack>>

\* The state of main outside the library functions
mainVars == <<options, lockfile, requests, advisories, output, exitCode>>

-----------------------------------------------------------------------------
(* Bounds of the model *)

MaxEdges == 2

MaxSpecs == 3

TicksPerDay == 2

MaxEntries == 3

-----------------------------------------------------------------------------
(* Generic helpers *)

Range(s) == {s[i] : i \in 1..Len(s)}

Reverse(s) == [i \in 1..Len(s) |-> s[Len(s) + 1 - i]]

\* Set.prototype.add on a Set kept in insertion order
SetAdd(s, x) == IF x \in Range(s) THEN s ELSE Append(s, x)

EmptyMap == [k \in {} |-> k]

\* `map.get(k) != null`
MapHas(m, k) == k \in DOMAIN m

\* Map.prototype.set
MapSet(m, k, val) == [x \in (DOMAIN m) \cup {k} |-> IF x = k THEN val ELSE m[x]]

\* All subsets of S with at most k elements
RECURSIVE SubsetsUpTo(_, _)
SubsetsUpTo(S, k) ==
  IF k = 0 THEN {{}}
  ELSE LET smaller == SubsetsUpTo(S, k - 1)
       IN smaller \cup {T \cup {e} : T \in smaller, e \in S}

\* All sequences over S without repetition, of length 0..k
RECURSIVE DistinctSeqs(_, _)
DistinctSeqs(S, k) ==
  IF k = 0 THEN {<<>>}
  ELSE LET shorter == DistinctSeqs(S, k - 1)
       IN shorter \cup
          UNION {{Append(s, e) : e \in S \ Range(s)} : s \in {t \in shorter : Len(t) = k - 1}}

-----------------------------------------------------------------------------
(* semver *)

\* semver.compare: major, then minor, then patch
VersionCompare(a, b) ==
  IF a[1] # b[1] THEN (IF a[1] < b[1] THEN -1 ELSE 1)
  ELSE IF a[2] # b[2] THEN (IF a[2] < b[2] THEN -1 ELSE 1)
  ELSE IF a[3] # b[3] THEN (IF a[3] < b[3] THEN -1 ELSE 1)
  ELSE 0

\* semver.gt
isGreaterVersion(a, b) == VersionCompare(a, b) > 0

\* semver.lt
isLessVersion(a, b) == VersionCompare(a, b) < 0

ZeroVersion == <<0, 0, 0>>

Star == [op |-> "*", v |-> ZeroVersion]

Caret(v) == [op |-> "^", v |-> v]

Tilde(v) == [op |-> "~", v |-> v]

Exact(v) == [op |-> "=", v |-> v]

\* Exclusive upper bound of a caret or tilde range (`<X.Y.Z-0`)
UpperBound(spec) ==
  IF spec.op = "^"
  THEN (IF spec.v[1] > 0 THEN <<spec.v[1] + 1, 0, 0>>
        ELSE IF spec.v[2] > 0 THEN <<0, spec.v[2] + 1, 0>>
        ELSE <<0, 0, spec.v[3] + 1>>)
  ELSE <<spec.v[1], spec.v[2] + 1, 0>>

\* semver.satisfies(version, range)
versionSatisfies(version, spec) ==
  CASE spec.op = "*" -> TRUE
    [] spec.op = "=" -> version = spec.v
    [] spec.op \in {"^", "~"} ->
         /\ VersionCompare(version, spec.v) >= 0
         /\ VersionCompare(version, UpperBound(spec)) < 0
    [] OTHER -> FALSE

\* semver.subset(sub, dom): every version sub admits is admitted by dom
rangeSubset(sub, dom) ==
  CASE dom.op = "*" -> TRUE
    [] sub.op = "*" -> FALSE
    [] sub.op = "=" -> versionSatisfies(sub.v, dom)
    [] dom.op = "=" -> FALSE
    [] OTHER ->
         /\ VersionCompare(sub.v, dom.v) >= 0
         /\ VersionCompare(UpperBound(sub), UpperBound(dom)) <= 0

\* semver.maxSatisfying(versions, range); NoVersion stands for null
NoVersion == <<-1, -1, -1>>

maxSatisfyingVersion(versions, spec) ==
  LET ok == {v \in versions : versionSatisfies(v, spec)}
  IN IF ok = {} THEN NoVersion
     ELSE CHOOSE v \in ok : \A w \in ok : VersionCompare(v, w) >= 0

-----------------------------------------------------------------------------
(* The resolution graph (types.ts Node / Edge) *)

Nodes == 1..3

Root == 1

Names == {"a", "b"}

\* Specs written on the edges of the graph
EdgeSpecs == {Caret(<<1, 0, 0>>), Tilde(<<1, 2, 0>>)}

\* `edge.to?.version`: NoVersion when the edge has no target or the target no version
EdgeTargets == {NoVersion, <<1, 2, 3>>}

Edges == [node : Nodes, name : Names, dev : BOOLEAN, spec : EdgeSpecs, to : EdgeTargets]

\* edgesOut is a Map keyed by name: a node has at most one edge per name
EdgeSets ==
  {E \in SubsetsUpTo(Edges, MaxEdges) :
     \A e, f \in E : (e.node = f.node /\ e.name = f.name) => e = f}

\* The children mappings form a tree rooted at Root
Parents == {p \in [Nodes \ {Root} -> Nodes] : \A n \in Nodes \ {Root} : p[n] < n}

Trees == [parent : Parents, reversed : BOOLEAN, edges : EdgeSets]

RECURSIVE Ascending(_)
Ascending(S) ==
  IF S = {} THEN <<>>
  ELSE LET m == CHOOSE x \in S : \A y \in S : x <= y
       IN <<m>> \o Ascending(S \ {m})

\* `tree.children` of node n, in the iteration order of the Map
Children(t, n) ==
  LET asc == Ascending({m \in Nodes \ {Root} : t.parent[m] = n})
  IN IF t.reversed THEN Reverse(asc) ELSE asc

\* `tree.edgesOut` of node n
EdgesOut(t, n) == {e \in t.edges : e.node = n}

-----------------------------------------------------------------------------
(* buildFlatDependencies *)

NewDependency == [specs |-> <<>>, versions |-> <<>>]

\* The loop over edgesOut without its `continue`
EdgeNeverSkipped(cfg, edge) == FALSE

\* `config.excludeDev && edge.dev`
EdgeSkipped(cfg, edge) == cfg.excludeDev /\ edge.dev

\* One iteration of the loop over edgesOut, for an edge that is not skipped
AddEdge(deps, edge) ==
  LET dependency == IF MapHas(deps, edge.name) THEN deps[edge.name] ELSE NewDependency
      withSpec == [dependency EXCEPT !.specs = SetAdd(@, edge.spec)]
      withVersion == IF edge.to # NoVersion
                     THEN [withSpec EXCEPT !.versions = SetAdd(@, edge.to)]
                     ELSE withSpec
  IN MapSet(deps, edge.name, withVersion)

RECURSIVE CollectEdges(_, _, _)
CollectEdges(deps, edges, cfg) ==
  IF edges = {} THEN deps
  ELSE LET edge == CHOOSE e \in edges : TRUE
           next == IF EdgeSkipped(cfg, edge) THEN deps ELSE AddEdge(deps, edge)
       IN CollectEdges(next, edges \ {edge}, cfg)

\* `new Map([...dependencies].concat([...subDependencies]))`: for a key present in
\* both, the entry of subDependencies comes last and is the one the Map keeps
MergeMaps(deps, sub) ==
  [k \in (DOMAIN deps) \cup (DOMAIN sub) |-> IF k \in DOMAIN sub THEN sub[k] ELSE deps[k]]

RECURSIVE buildFlatDependencies(_, _, _)
RECURSIVE MergeChildren(_, _, _, _)
MergeChildren(deps, children, t, cfg) ==
  IF children = <<>> THEN deps
  ELSE MergeChildren(MergeMaps(deps, buildFlatDependencies(t, Head(children), cfg)),
                     Tail(children), t, cfg)

buildFlatDependencies(t, n, cfg) ==
  MergeChildren(CollectEdges(EmptyMap, EdgesOut(t, n), cfg), Children(t, n), t, cfg)

-----------------------------------------------------------------------------
(* Array.prototype.sort as the engine runs it on a short array: the leading *)
(* run is found by comparing neighbours (and reversed when it descends),    *)
(* every later element is placed by binary insertion.  The comparator of    *)
(* validateDependencies is no consistent order, so the result depends on    *)
(* these steps and on the order the specs were collected in.                *)

\* The comparator with its arguments swapped
SpecComparatorSwapped(first, second) == IF rangeSubset(second, first) THEN -1 ELSE 1

\* `(first, second) => (rangeSubset(first, second) ? -1 : 1)`
SpecComparator(first, second) == IF rangeSubset(first, second) THEN -1 ELSE 1

\* Last index of the run that starts at 1; idx is the next index to look at
RECURSIVE RunEnd(_, _, _)
RunEnd(s, idx, descending) ==
  IF idx > Len(s) THEN Len(s)
  ELSE LET order == SpecComparator(s[idx], s[idx - 1])
       IN IF (descending /\ order >= 0) \/ (~descending /\ order < 0)
          THEN idx - 1
          ELSE RunEnd(s, idx + 1, descending)

\* Position (0-based) at which pivot goes into the sorted prefix [left, right)
RECURSIVE InsertionPoint(_, _, _, _)
InsertionPoint(s, pivot, left, right) ==
  IF left >= right THEN left
  ELSE LET mid == left + ((right - left) \div 2)
       IN IF SpecComparator(pivot, s[mid + 1]) < 0
          THEN InsertionPoint(s, pivot, left, mid)
          ELSE InsertionPoint(s, pivot, mid + 1, right)

\* start is the 0-based index of the first element outside the sorted prefix
RECURSIVE BinaryInsertionSort(_, _)
BinaryInsertionSort(s, start) ==
  IF start >= Len(s) THEN s
  ELSE LET pivot == s[start + 1]
           left == InsertionPoint(s, pivot, 0, start)
           moved == [i \in 1..Len(s) |->
                       IF i <= left THEN s[i]
                       ELSE IF i = left + 1 THEN pivot
                       ELSE IF i <= start + 1 THEN s[i - 1]
                       ELSE s[i]]
       IN BinaryInsertionSort(moved, start + 1)

SortSpecs(s) ==
  IF Len(s) < 2 THEN s
  ELSE LET descending == SpecComparator(s[2], s[1]) < 0
           runLength == RunEnd(s, 3, descending)
           run == IF descending
                  THEN [i \in 1..Len(s) |-> IF i <= runLength THEN s[runLength + 1 - i] ELSE s[i]]
                  ELSE s
       IN BinaryInsertionSort(run, runLength)

-----------------------------------------------------------------------------
(* validateDependencies *)

DefaultMinDays == 14

\* `config.minDays ?? 14`; an unset minDays is the empty sequence
MinDays(cfg) == IF cfg.minDays = <<>> THEN DefaultMinDays ELSE cfg.minDays[1]

\* Keys of `packument.time` that are no versions
Created == <<-2, -2, -2>>

Modified == <<-3, -3, -3>>

\* `Object.keys(packument.time ?? {}).filter(...)`
KnownVersions(packument) == (DOMAIN packument.time) \ {Created, Modified}

\* The loop over carry asking for a kept super-range instead
CoveredByKeptSuperRange(carry, spec) == \E i \in 1..Len(carry) : rangeSubset(spec, carry[i])

\* Is a kept spec a sub-range of spec? (the loop over carry)
CoveredByKept(carry, spec) == \E i \in 1..Len(carry) : rangeSubset(carry[i], spec)

\* The reduce over the sorted specs
RECURSIVE ReduceSpecs(_, _)
ReduceSpecs(carry, sorted) ==
  IF sorted = <<>> THEN carry
  ELSE LET spec == Head(sorted)
           next == IF Len(carry) = 0 THEN <<spec>>
                   ELSE IF CoveredByKept(carry, spec) THEN carry
                   ELSE Append(carry, spec)
       IN ReduceSpecs(next, Tail(sorted))

\* Installed-version mode applies to the record
UseInstalled(dependency, cfg) == cfg.production /\ Len(dependency.versions) > 0

\* The effective specs with `*` standing in for an empty set of recorded specs
EffectiveSpecsOrStar(deps, name, cfg) ==
  IF ~MapHas(deps, name) THEN <<Star>>
  ELSE IF UseInstalled(deps[name], cfg)
       THEN [i \in 1..Len(deps[name].versions) |-> Exact(deps[name].versions[i])]
       ELSE IF deps[name].specs = <<>> THEN <<Star>>
            ELSE Reverse(ReduceSpecs(<<>>, SortSpecs(deps[name].specs)))

\* The effective specs taken from the versions whenever there is one
EffectiveSpecsFromVersions(deps, name, cfg) ==
  IF ~MapHas(deps, name) THEN <<Star>>
  ELSE IF Len(deps[name].versions) > 0
       THEN [i \in 1..Len(deps[name].versions) |-> Exact(deps[name].versions[i])]
       ELSE Reverse(ReduceSpecs(<<>>, SortSpecs(deps[name].specs)))

\* The effective specs with `new Set()` for `new Set(['*'])`
EffectiveSpecsNoWildcard(deps, name, cfg) ==
  IF ~MapHas(deps, name) THEN <<>>
  ELSE IF UseInstalled(deps[name], cfg)
       THEN [i \in 1..Len(deps[name].versions) |-> Exact(deps[name].versions[i])]
       ELSE Reverse(ReduceSpecs(<<>>, SortSpecs(deps[name].specs)))

\* The Set `specs` the loop over specs runs on; deps is the mapping, name the package
EffectiveSpecs(deps, name, cfg) ==
  IF ~MapHas(deps, name) THEN <<Star>>
  ELSE IF UseInstalled(deps[name], cfg)
       THEN [i \in 1..Len(deps[name].versions) |-> Exact(deps[name].versions[i])]
       ELSE Reverse(ReduceSpecs(<<>>, SortSpecs(deps[name].specs)))

\* The record after a `dependency.specs` sorted in place, as an array would be
RecordSortedInPlace(dependency, cfg) ==
  IF UseInstalled(dependency, cfg) THEN dependency
  ELSE [dependency EXCEPT !.specs = SortSpecs(@)]

\* The record after its effective specs were computed: `[...dependency.specs]` is a
\* copy, the sort, the reduce and the reverse work on that copy, and
\* `specs = dependency.versions` is only iterated
RecordAfterValidate(dependency, cfg) == dependency

\* The dependency mapping after the loop over the packuments
DependenciesAfterValidate(deps, packs, cfg) ==
  [name \in DOMAIN deps |->
     IF \E i \in 1..Len(packs) : packs[i].name = name
     THEN RecordAfterValidate(deps[name], cfg)
     ELSE deps[name]]

\* `maxSatisfyingVersion(versions, spec) ?? '0.0.0'`
ResolveVersion(packument, spec) ==
  LET version == maxSatisfyingVersion(KnownVersions(packument), spec)
  IN IF version = NoVersion THEN ZeroVersion ELSE version

\* The allow check inverted
AllowPassesInverted(cfg, name, version) ==
  ~MapHas(cfg.allow, name) \/ ~versionSatisfies(version, cfg.allow[name])

\* `allowedSpec == null || versionSatisfies(version, allowedSpec)`
AllowPasses(cfg, name, version) ==
  ~MapHas(cfg.allow, name) \/ versionSatisfies(version, cfg.allow[name])

\* `deniedSpec == null || versionSatisfies(version, deniedSpec)`
DenyPasses(cfg, name, version) ==
  ~MapHas(cfg.deny, name) \/ versionSatisfies(version, cfg.deny[name])

\* The allowFrom check with a strict comparison
AllowFromPassesStrict(cfg, name, t) ==
  ~MapHas(cfg.allowFrom, name) \/ t - (cfg.allowFrom[name] + MinDays(cfg) * TicksPerDay) > 0

\* `allowedFrom == null || now.diff(allowedFrom.plus({ days: minDays }), 'days').days >= 0`
AllowFromPasses(cfg, name, t) ==
  ~MapHas(cfg.allowFrom, name) \/ t - (cfg.allowFrom[name] + MinDays(cfg) * TicksPerDay) >= 0

\* `packument.time?.[version] ?? now.toISO()`
Published(packument, version, t) ==
  IF version \in DOMAIN packument.time THEN packument.time[version] ELSE t

\* The age measured from the allowFrom date of the package when it has one
AgeTicksFromAllowFrom(packument, version, t) ==
  IF MapHas(config.allowFrom, packument.name)
  THEN t - config.allowFrom[packument.name]
  ELSE t - Published(packument, version, t)

\* Ticks between now and the publication: `now.diff(DateTime.fromISO(published), 'days')`
AgeTicks(packument, version, t) == t - Published(packument, version, t)

\* `Math.floor(days)`
DaysSincePublish(ticks) == ticks \div TicksPerDay

\* The threshold compared strictly
IsSafeStrict(ticks, cfg) == ticks > MinDays(cfg) * TicksPerDay

\* The threshold compared the wrong way round
IsSafeInverted(ticks, cfg) == ticks <= MinDays(cfg) * TicksPerDay

\* `days >= minDays`
IsSafe(ticks, cfg) == ticks >= MinDays(cfg) * TicksPerDay

\* The reduce keeping the first item instead of the lowest
FirstVersion(carry, items) == IF items = <<>> THEN carry ELSE Head(items)

\* The lowest version of the advisory's list above `version` that is not vulnerable
RECURSIVE LowestVersion(_, _)
LowestVersion(carry, items) ==
  IF items = <<>> THEN carry
  ELSE LET item == Head(items)
           next == IF carry = NoVersion THEN item
                   ELSE IF isLessVersion(item, carry) THEN item ELSE carry
       IN LowestVersion(next, Tail(items))

FixedVersion(advisory, version) ==
  LowestVersion(NoVersion,
    SelectSeq(advisory.versions,
      LAMBDA item : item \notin advisory.vulnerableVersions /\ isGreaterVersion(item, version)))

\* The recommendations of one Verdict; vulnerability is `vulnerabilities.get(name)` or <<>>
RECURSIVE Recommendations(_, _)
Recommendations(vulnerability, version) ==
  IF vulnerability = <<>> THEN <<>>
  ELSE LET advisory == Head(vulnerability)
           rest == Recommendations(Tail(vulnerability), version)
       IN IF version \in advisory.testVersion
          THEN <<[fixedVersion |-> FixedVersion(advisory, version),
                  severity |-> advisory.severity]>> \o rest
          ELSE rest

\* The Verdict with a safe flag that also asks for no recommendation
VerdictUnsafeWhenAdvised(packument, version, vulns, cfg, t) ==
  LET recommendations == Recommendations(IF MapHas(vulns, packument.name)
                                         THEN vulns[packument.name] ELSE <<>>, version)
  IN [recommendations |-> recommendations,
      version |-> version,
      daysSincePublish |-> DaysSincePublish(AgeTicks(packument, version, t)),
      safe |-> IsSafe(AgeTicks(packument, version, t), cfg) /\ recommendations = <<>>]

\* The Verdict pushed for one effective spec that passed the policy checks
Verdict(packument, version, vulns, cfg, t) ==
  [recommendations |-> Recommendations(IF MapHas(vulns, packument.name)
                                       THEN vulns[packument.name] ELSE <<>>, version),
   version |-> version,
   daysSincePublish |-> DaysSincePublish(AgeTicks(packument, version, t)),
   safe |-> IsSafe(AgeTicks(packument, version, t), cfg)]

\* The loop with `validations.set(packument.name, validation)` after the `if`: a
\* suppressed spec leaves the list of the package in the Map, empty or not
RECURSIVE ValidateSpecsKeepingEmpty(_, _, _, _, _, _)
ValidateSpecsKeepingEmpty(vals, packument, specs, vulns, cfg, t) ==
  IF specs = <<>> THEN vals
  ELSE LET name == packument.name
           version == ResolveVersion(packument, Head(specs))
           validation == IF MapHas(vals, name) THEN vals[name] ELSE <<>>
           next == IF /\ AllowPasses(cfg, name, version)
                      /\ DenyPasses(cfg, name, version)
                      /\ AllowFromPasses(cfg, name, t)
                   THEN MapSet(vals, name,
                               Append(validation, Verdict(packument, version, vulns, cfg, t)))
                   ELSE MapSet(vals, name, validation)
       IN ValidateSpecsKeepingEmpty(next, packument, Tail(specs), vulns, cfg, t)

\* The loop over the effective specs of one packument
RECURSIVE ValidateSpecs(_, _, _, _, _, _)
ValidateSpecs(vals, packument, specs, vulns, cfg, t) ==
  IF specs = <<>> THEN vals
  ELSE LET name == packument.name
           version == ResolveVersion(packument, Head(specs))
           validation == IF MapHas(vals, name) THEN vals[name] ELSE <<>>
           next == IF /\ AllowPasses(cfg, name, version)
                      /\ DenyPasses(cfg, name, version)
                      /\ AllowFromPasses(cfg, name, t)
                   THEN MapSet(vals, name,
                               Append(validation, Verdict(packument, version, vulns, cfg, t)))
                   ELSE vals
       IN ValidateSpecs(next, packument, Tail(specs), vulns, cfg, t)

\* `packuments.forEach(...)`
RECURSIVE ValidatePackuments(_, _, _, _, _, _)
ValidatePackuments(vals, deps, packs, vulns, cfg, t) ==
  IF packs = <<>> THEN vals
  ELSE ValidatePackuments(
         ValidateSpecs(vals, Head(packs), EffectiveSpecs(deps, Head(packs).name, cfg),
                       vulns, cfg, t),
         deps, Tail(packs), vulns, cfg, t)

validateDependencies(deps, packs, vulns, cfg, t) ==
  ValidatePackuments(EmptyMap, deps, packs, vulns, cfg, t)

-----------------------------------------------------------------------------
(* loadYarnLockfileDependencies *)
(* A key of the parsed lockfile is a sequence of pieces: the separators     *)
(* "@", ":" and "$", and texts that hold none of them.  An entry is a       *)
(* record [key, matched, name, protocol, spec, version]: key is the text of *)
(* the key, matched says whether it matches specRegex, and name, protocol   *)
(* ("" when the group is absent) and spec are the groups of the match, the  *)
(* spec as the range its text denotes.                                      *)

MetadataKey == "__metadata"

\* A spec that is no valid range
InvalidRange == [op |-> "!", v |-> NoVersion]

\* The text of a sequence of pieces
RECURSIVE Join(_)
Join(pieces) == IF pieces = <<>> THEN "" ELSE Head(pieces) \o Join(Tail(pieces))

\* Index of the first piece equal to sep from index `from` on, 0 when there is none
RECURSIVE IndexOf(_, _, _)
IndexOf(pieces, sep, from) ==
  IF from > Len(pieces) THEN 0
  ELSE IF pieces[from] = sep THEN from
  ELSE IndexOf(pieces, sep, from + 1)

\* `^(@?[^@]+)@`: the index of the "@" that ends the name, 0 when the key has none
NameEnd(key) ==
  LET start == IF key # <<>> /\ key[1] = "@" THEN 2 ELSE 1
      at == IndexOf(key, "@", start)
  IN IF at > start THEN at ELSE 0

\* The ranges the texts of the model denote; any other text is no valid range
RangeOf(text) ==
  CASE text = "^1.0.0" -> Caret(<<1, 0, 0>>)
    [] text = "~1.2.0" -> Tilde(<<1, 2, 0>>)
    [] text = "^2.0.0" -> Caret(<<2, 0, 0>>)
    [] OTHER -> InvalidRange

NoMatch == [matched |-> FALSE, name |-> "", protocol |-> "", spec |-> InvalidRange]

\* `([^:]+:)?([^$]+)$` on what follows the name: the protocol is taken when a colon
\* follows at least one piece and something without "$" is left for the spec
MatchRest(name, rest) ==
  LET colon == IndexOf(rest, ":", 1)
      after == SubSeq(rest, colon + 1, Len(rest))
  IN IF colon > 1 /\ after # <<>> /\ IndexOf(after, "$", 1) = 0
     THEN [matched |-> TRUE, name |-> name,
           protocol |-> Join(SubSeq(rest, 1, colon)), spec |-> RangeOf(Join(after))]
     ELSE IF rest # <<>> /\ IndexOf(rest, "$", 1) = 0
          THEN [matched |-> TRUE, name |-> name, protocol |-> "", spec |-> RangeOf(Join(rest))]
          ELSE NoMatch

\* `key.match(specRegex) ?? []`
MatchKey(key) ==
  LET at == NameEnd(key)
  IN IF at = 0 THEN NoMatch
     ELSE MatchRest(Join(SubSeq(key, 1, at - 1)), SubSeq(key, at + 1, Len(key)))

\* An entry of `Object.entries(parsed)` with the match of its key
ParsedEntry(key, version) ==
  LET match == MatchKey(key)
  IN [key |-> Join(key), matched |-> match.matched, name |-> match.name,
      protocol |-> match.protocol, spec |-> match.spec, version |-> version]

\* `validRange(spec) != null`
validRange(spec) == spec # InvalidRange

\* The two `continue` of the loop
EntrySkipped(entry) ==
  \/ entry.key = MetadataKey
  \/ ~entry.matched
  \/ ~validRange(entry.spec)

\* The last `if` with any protocol let through
EntryAcceptedAnyProtocol(entry) == TRUE

\* `name != null && (protocol == null || protocol === 'npm:')`
EntryAccepted(entry) == entry.protocol \in {"", "npm:"}

\* The body of the last `if` without `dependency.specs.add(spec)`
AddEntryVersionOnly(deps, entry) ==
  LET dependency == IF MapHas(deps, entry.name) THEN deps[entry.name] ELSE NewDependency
  IN MapSet(deps, entry.name,
            [dependency EXCEPT !.versions = SetAdd(@, entry.version)])

\* The body of the last `if`: the record is fetched or created, and added to
AddEntry(deps, entry) ==
  LET dependency == IF MapHas(deps, entry.name) THEN deps[entry.name] ELSE NewDependency
  IN MapSet(deps, entry.name,
            [dependency EXCEPT !.specs = SetAdd(@, entry.spec),
                               !.versions = SetAdd(@, entry.version)])

RECURSIVE LoadEntries(_, _)
LoadEntries(deps, entries) ==
  IF entries = <<>> THEN deps
  ELSE LET entry == Head(entries)
           next == IF EntrySkipped(entry) \/ ~EntryAccepted(entry)
                   THEN deps
                   ELSE AddEntry(deps, entry)
       IN LoadEntries(next, Tail(entries))

\* parsed is `Object.entries(parseSyml(content))`
loadYarnLockfileDependencies(parsed) == LoadEntries(EmptyMap, parsed)

-----------------------------------------------------------------------------
(* processDependencies *)
(* A request is a record [spec, state, time]: state is "pending",           *)
(* "fulfilled" or "rejected", time the `time` of the packument it was       *)
(* fulfilled with.                                                          *)

\* `minVersion(range)` of the ranges of the model
minVersion(spec) == IF spec.op = "*" THEN ZeroVersion ELSE spec.v

\* The reduce with `!isLessVersion` for `isGreaterVersion`: a tie replaces the carry
RECURSIVE RequestSpecLast(_, _)
RequestSpecLast(carry, specs) ==
  IF specs = <<>> THEN carry
  ELSE LET item == Head(specs)
       IN RequestSpecLast(IF ~isLessVersion(minVersion(item), minVersion(carry))
                          THEN item ELSE carry,
                          Tail(specs))

\* The reduce that picks the spec of the request, carry starting at '^0.0.0'
RECURSIVE RequestSpec(_, _)
RequestSpec(carry, specs) ==
  IF specs = <<>> THEN carry
  ELSE LET item == Head(specs)
       IN RequestSpec(IF isGreaterVersion(minVersion(item), minVersion(carry))
                      THEN item ELSE carry,
                      Tail(specs))

\* The order in which the Maps of the model are iterated
NameOrder == <<"a", "b">>

Keys(m) == SelectSeq(NameOrder, LAMBDA k : k \in DOMAIN m)

\* `exclude.replace('/*', '\\/.*')`: the first '/*' of a pattern becomes '\/.*'; the
\* one pattern of the model that holds '/*' is '@s/*', the others are plain texts
\* of at most one character
ReplaceScope(pattern) == IF pattern = "@s/*" THEN "@s\\/.*" ELSE pattern

\* `.join('|')` followed by `new RegExp(...)`: the alternatives of the regular
\* expression; joining no pattern at all gives the empty text, so the
\* expression of an empty array has the empty alternative
Alternatives(array) ==
  IF array = <<>> THEN <<"">> ELSE [i \in 1..Len(array) |-> ReplaceScope(array[i])]

\* null (<<>>) for an undefined array, else the regular expression
arrayToRegExp(array) ==
  IF array = <<>> THEN <<>> ELSE <<Alternatives(array[1])>>

\* An unanchored alternative matches a name that contains a match of it: the empty
\* one matches every name, one of a single character matches the names of one
\* character equal to it, and '@s\/.*' matches no name without the scope '@s/'
Contains(name, alternative) == alternative = "" \/ alternative = name

\* `regexp.test(name)`
RegExpTest(regexp, name) == \E alternative \in Range(regexp) : Contains(name, alternative)

\* `included?.test(name) ?? true`
IncludedTest(included, name) == IF included = <<>> THEN TRUE ELSE RegExpTest(included[1], name)

\* `excluded?.test(name) ?? false`
ExcludedTest(excluded, name) == IF excluded = <<>> THEN FALSE ELSE RegExpTest(excluded[1], name)

\* The condition of the loop over the records
Requested(name, cfg) ==
  /\ IncludedTest(arrayToRegExp(cfg.include), name)
  /\ ~ExcludedTest(arrayToRegExp(cfg.exclude), name)

\* The promises pushed by the loop over the records
processDependencies(deps, cfg) ==
  [name \in {n \in DOMAIN deps : Requested(n, cfg)} |->
     [spec |-> RequestSpec(Caret(ZeroVersion), deps[name].specs),
      state |-> "pending",
      time |-> EmptyMap]]

\* Promise.all fulfilling on any fulfilled promise
AnyFulfilled(reqs) ==
  \/ DOMAIN reqs = {}
  \/ \E name \in DOMAIN reqs : reqs[name].state = "fulfilled"

\* `Promise.all(promises)` fulfils when every promise is fulfilled
AllFulfilled(reqs) == \A name \in DOMAIN reqs : reqs[name].state = "fulfilled"

\* Promise.all rejecting only when every promise was rejected
EveryRejected(reqs) ==
  /\ DOMAIN reqs # {}
  /\ \A name \in DOMAIN reqs : reqs[name].state = "rejected"

\* `Promise.all(promises)` rejects as soon as one promise is rejected
AnyRejected(reqs) == \E name \in DOMAIN reqs : reqs[name].state = "rejected"

\* The array Promise.all fulfils with, in the order of the promises
Packuments(reqs) ==
  [i \in 1..Len(Keys(reqs)) |-> [name |-> Keys(reqs)[i], time |-> reqs[Keys(reqs)[i]].time]]

-----------------------------------------------------------------------------
(* main *)
(* An option text is a sequence of characters; an option that was not given *)
(* is <<>> and one that was given is <<text>>.  The exit code is <<>> while *)
(* the process runs.  A line of output is a record [level, message,         *)
(* subject].  The progress messages of main are left out.                   *)

ExitCode == [OK |-> 0, FAIL |-> 1, ERROR |-> 2]

Digits == <<"0", "1", "2", "3", "4", "5", "6", "7", "8", "9">>

IsDigit(c) == c \in Range(Digits)

DigitValue(c) == (CHOOSE i \in 1..Len(Digits) : Digits[i] = c) - 1

\* The digits parseInt reads, from position idx on; <<>> is NaN
RECURSIVE ParseDigits(_, _, _)
ParseDigits(text, idx, acc) ==
  IF idx > Len(text) \/ ~IsDigit(text[idx]) THEN acc
  ELSE ParseDigits(text, idx + 1,
                   <<(IF acc = <<>> THEN 0 ELSE acc[1] * 10) + DigitValue(text[idx])>>)

RECURSIVE SkipSpaces(_, _)
SkipSpaces(text, idx) ==
  IF idx <= Len(text) /\ text[idx] = " " THEN SkipSpaces(text, idx + 1) ELSE idx

\* `parseInt(text, 10)`: leading blanks, a sign, then digits up to the first other character
parseInt(text) ==
  LET start == SkipSpaces(text, 1)
      signed == start <= Len(text) /\ text[start] \in {"-", "+"}
      digits == ParseDigits(text, IF signed THEN start + 1 ELSE start, <<>>)
  IN IF digits = <<>> THEN <<>>
     ELSE IF signed /\ text[start] = "-" THEN <<0 - digits[1]>>
     ELSE digits

Min(a, b) == IF a < b THEN a ELSE b

\* `config.minDays = isNaN(days) ? undefined : Math.min(1, days)`
OptionMinDays(text) ==
  LET days == parseInt(text)
  IN IF days = <<>> THEN <<>> ELSE <<Min(1, days[1])>>

\* `.trim()` of a text of characters
TrimStart(text) == SubSeq(text, SkipSpaces(text, 1), Len(text))

Trim(text) == Reverse(TrimStart(Reverse(TrimStart(text))))

\* `.split(',')`: the texts between the commas, at least one
RECURSIVE Split(_)
Split(text) ==
  LET comma == IndexOf(text, ",", 1) IN
  IF comma = 0 THEN <<text>>
  ELSE <<SubSeq(text, 1, comma - 1)>> \o Split(SubSeq(text, comma + 1, Len(text)))

\* `option.trim().split(',').map((item) => item.trim())`
OptionPatterns(text) ==
  LET items == Split(Trim(text)) IN [i \in 1..Len(items) |-> Join(Trim(items[i]))]

\* The options of the command line written over the configuration
ApplyOptions(cfg, opts) ==
  [cfg EXCEPT
     !.exclude = IF opts.exclude = <<>> THEN @ ELSE <<OptionPatterns(opts.exclude[1])>>,
     !.include = IF opts.include = <<>> THEN @ ELSE <<OptionPatterns(opts.include[1])>>,
     !.minDays = IF opts.minDays = <<>> THEN @ ELSE OptionMinDays(opts.minDays[1]),
     !.json = IF opts.json THEN TRUE ELSE @,
     !.unsafe = IF opts.unsafe THEN TRUE ELSE @,
     !.production = IF opts.production THEN TRUE ELSE @,
     !.mode = IF opts.mode # "unset" THEN opts.mode
              ELSE IF @ # "unset" THEN @ ELSE "common"]

Line(level, message, subject) == [level |-> level, message |-> message, subject |-> subject]

\* The advisories calculated so far, without the one just calculated
KeepAdvisories(vulns, item) == vulns

\* `vulnerability.push(advisory); vulnerabilities.set(name, vulnerability)`
AddAdvisory(vulns, item) ==
  MapSet(vulns, item.name,
         Append(IF MapHas(vulns, item.name) THEN vulns[item.name] ELSE <<>>, item.advisory))

\* The reduce asking for one safe Verdict only
SomeSafe(items) == \E i \in 1..Len(items) : items[i].safe

\* `items.reduce((carry, validation) => carry && validation.safe, true)`
RECURSIVE AllSafe(_)
AllSafe(items) == IF items = <<>> THEN TRUE ELSE Head(items).safe /\ AllSafe(Tail(items))

\* fullSafe after the loop over the validations, in either output branch
RECURSIVE FullSafe(_, _)
FullSafe(vals, names) ==
  IF names = <<>> THEN TRUE
  ELSE AllSafe(vals[Head(names)]) /\ FullSafe(vals, Tail(names))

\* `config.unsafe === true ? items.filter((validation) => !validation.safe) : items`
JsonItems(items, cfg) ==
  IF cfg.unsafe THEN SelectSeq(items, LAMBDA validation : ~validation.safe) ELSE items

\* `console.log(JSON.stringify(data))`
JsonOutput(vals, cfg) ==
  <<Line("log", "data", <<[name \in DOMAIN vals |-> JsonItems(vals[name], cfg)]>>)>>

\* The severities counted in 'extend' mode
Severities(vals) ==
  {rec.severity : rec \in UNION {Range(item.recommendations) :
                                   item \in UNION {Range(vals[name]) : name \in DOMAIN vals}}}

SeverityOutput(vals, cfg) ==
  IF cfg.mode = "extend" /\ Severities(vals) # {}
  THEN <<Line("warn", "Some dependencies have security advisers", <<Severities(vals)>>)>>
  ELSE <<>>

\* The lines printed for one Verdict
VerdictOutput(name, item, cfg) ==
  IF cfg.mode = "strict" /\ Len(item.recommendations) > 0
  THEN <<Line("warn", "is not safe:", <<name, item.version>>)>>
       \o [i \in 1..Len(item.recommendations) |->
             Line("warn", "install version", <<name, item.recommendations[i].fixedVersion>>)]
  ELSE IF item.safe
       THEN IF ~cfg.unsafe
            THEN <<Line("info", "is safe", <<name, item.version>>)>>
            ELSE <<>>
       ELSE <<Line("warn", "is not safe (day(s) since last publish)", <<name, item.version>>)>>

RECURSIVE ItemsOutput(_, _, _)
ItemsOutput(name, items, cfg) ==
  IF items = <<>> THEN <<>>
  ELSE VerdictOutput(name, Head(items), cfg) \o ItemsOutput(name, Tail(items), cfg)

RECURSIVE TextOutput(_, _, _)
TextOutput(vals, names, cfg) ==
  IF names = <<>> THEN <<>>
  ELSE ItemsOutput(Head(names), vals[Head(names)], cfg) \o TextOutput(vals, Tail(names), cfg)

\* Everything main prints after the validation
ReportOutput(vals, cfg) ==
  IF cfg.json THEN JsonOutput(vals, cfg)
  ELSE SeverityOutput(vals, cfg)
       \o TextOutput(vals, Keys(vals), cfg)
       \o (IF FullSafe(vals, Keys(vals))
           THEN <<Line("info", "All packages are safe!", <<>>)>>
           ELSE <<>>)

-----------------------------------------------------------------------------
(* Inputs of the model *)

Days(d) == d * TicksPerDay

\* A config with nothing set
NoConfig ==
  [excludeDev |-> FALSE, production |-> FALSE, minDays |-> <<>>,
   allow |-> EmptyMap, deny |-> EmptyMap, allowFrom |-> EmptyMap]

FlatConfigs == {[NoConfig EXCEPT !.excludeDev = x] : x \in BOOLEAN}

NoTree == [parent |-> [n \in Nodes \ {Root} |-> Root], reversed |-> FALSE, edges |-> {}]

\* Specs a record of the dependency mapping may hold
RecordSpecs == {Caret(<<1, 0, 0>>), Tilde(<<1, 2, 0>>), Caret(<<2, 0, 0>>), Star}

RecordVersions == {<<>>, << <<1, 2, 3>> >>}

Records == [specs : DistinctSeqs(RecordSpecs, MaxSpecs), versions : RecordVersions]

\* The dependency mappings validateDependencies is given: a record for "a" or none
DependencyMaps == {EmptyMap} \cup {[k \in {"a"} |-> r] : r \in Records}

\* Publication times of the versions the registry may know of package "a"
PublishTimes ==
  [v \in {<<1, 2, 3>>, <<1, 3, 0>>, <<2, 0, 0>>} |->
     IF v = <<1, 2, 3>> THEN 0
     ELSE IF v = <<1, 3, 0>> THEN Days(22)
     ELSE Days(34) + 1]

TimeMaps ==
  {[v \in S \cup {Created, Modified} |->
      IF v \in DOMAIN PublishTimes THEN PublishTimes[v] ELSE 0] :
   S \in SUBSET DOMAIN PublishTimes}

PackumentLists == {<<[name |-> "a", time |-> tm]>> : tm \in TimeMaps}

NowPool == {Days(35), Days(36), Days(52) + 1}

MinDaysPool == {<<>>, <<1>>, <<30>>}

AllowMaps == {EmptyMap, [k \in {"a"} |-> Caret(<<1, 0, 0>>)]}

DenyMaps == {EmptyMap, [k \in {"a"} |-> Tilde(<<1, 2, 0>>)], [k \in {"b"} |-> Tilde(<<1, 2, 0>>)]}

AllowFromMaps == {EmptyMap, [k \in {"a"} |-> Days(22)]}

ValidateConfigs ==
  [excludeDev : {FALSE}, production : BOOLEAN, minDays : MinDaysPool,
   allow : AllowMaps, deny : DenyMaps, allowFrom : AllowFromMaps]

\* main has not run: the state of the specifications of the library functions
NoOptions ==
  [minDays |-> <<>>, json |-> FALSE, unsafe |-> FALSE, production |-> FALSE, mode |-> "unset",
   exclude |-> <<>>, include |-> <<>>]

NoAdvisories == [items |-> <<>>, done |-> 0]

NotInMain ==
  /\ options = NoOptions
  /\ lockfile = <<>>
  /\ requests = EmptyMap
  /\ advisories = NoAdvisories
  /\ output = <<>>
  /\ exitCode = <<>>
  /\ stack = <<>>

\* The keys of the lockfiles of the model
YarnKeys ==
  {<<"__metadata">>,
   <<"a", "@", "^1.0.0">>,
   <<"a", "@", "npm", ":", "~1.2.0">>,
   <<"a", "@", "^2.0.0">>,
   <<"a", "@", "patch", ":", "^1.0.0">>,
   <<"a", "@", "latest">>,
   <<"a", "@", "npm", ":">>,
   <<"b", "@", "npm", ":", "^1.0.0">>,
   <<"@", "b">>}

\* The `version` of the entry of a key
YarnVersion(key) ==
  IF key = <<"__metadata">> THEN NoVersion
  ELSE IF key = <<"a", "@", "^2.0.0">> THEN <<2, 0, 0>>
  ELSE <<1, 2, 3>>

YarnEntries == {ParsedEntry(key, YarnVersion(key)) : key \in YarnKeys}

Lockfiles == DistinctSeqs(YarnEntries, MaxEntries)

\* Inputs of validateDependencies with advisories and with a published 0.0.0
AdvisedRecords ==
  {[specs |-> <<Caret(<<2, 0, 0>>)>>, versions |-> <<>>],
   [specs |-> <<Caret(<<1, 0, 0>>)>>, versions |-> << <<2, 0, 0>> >>],
   [specs |-> <<Caret(<<1, 0, 0>>), Caret(<<2, 0, 0>>)>>, versions |-> << <<2, 0, 1>> >>]}

AdvisedDependencyMaps == {EmptyMap} \cup {[k \in {"a"} |-> r] : r \in AdvisedRecords}

AdvisedPublishTimes ==
  [v \in {ZeroVersion, <<1, 2, 3>>, <<2, 0, 0>>} |->
     IF v = <<2, 0, 0>> THEN Days(34) + 1 ELSE 0]

AdvisedPackumentLists ==
  {<<[name |-> "a",
      time |-> [v \in S \cup {Created, Modified} |->
                  IF v \in DOMAIN AdvisedPublishTimes THEN AdvisedPublishTimes[v] ELSE 0]]>> :
   S \in SUBSET DOMAIN AdvisedPublishTimes}

AdvisoryVersions ==
  {<< <<2, 0, 0>>, <<2, 0, 1>>, <<2, 0, 2>>, <<2, 1, 0>> >>,
   << <<2, 1, 0>>, <<2, 0, 2>>, <<2, 0, 1>>, <<2, 0, 0>> >>,
   << <<1, 2, 3>>, <<2, 0, 0>> >>}

AdvisoryVulnerable ==
  {{}, {<<2, 0, 0>>}, {<<2, 0, 0>>, <<2, 0, 1>>},
   {<<2, 0, 0>>, <<2, 0, 1>>, <<2, 0, 2>>, <<2, 1, 0>>}}

\* The versions `advisory.testVersion` accepts
AdvisoryTested == {{<<2, 0, 0>>, <<2, 0, 1>>}, {<<1, 2, 3>>}}

Advisories ==
  [versions : AdvisoryVersions, vulnerableVersions : AdvisoryVulnerable,
   testVersion : AdvisoryTested, severity : {"high"}]

\* A second advisory of the same package, of another severity
OtherAdvisory ==
  [versions |-> << <<2, 0, 0>>, <<2, 1, 0>> >>, vulnerableVersions |-> {<<2, 0, 0>>},
   testVersion |-> {<<2, 0, 0>>}, severity |-> "low"]

AdvisoryLists == {<<>>} \cup {<<a>> : a \in Advisories} \cup {<<a, OtherAdvisory>> : a \in Advisories}

VulnerabilityMaps == {IF l = <<>> THEN EmptyMap ELSE [k \in {"a"} |-> l] : l \in AdvisoryLists}

AdvisedConfigs ==
  {[NoConfig EXCEPT !.production = p, !.minDays = m] : p \in BOOLEAN, m \in {<<>>, <<1>>}}

\* Inputs of main
OptionTexts == {<<"3", "0">>, <<"1">>, <<"x">>}

\* The texts of --exclude and --include
\* The command lines that name patterns
FilterOptions ==
  {[NoOptions EXCEPT !.exclude = ex, !.include = inc] :
     ex \in {<<>>, <<<<"b">>>>, <<<<>>>>}, inc \in {<<>>, <<<<" ", "a", ",", "b", " ">>>>}}

MainOptions ==
  [minDays : {<<>>} \cup {<<text>> : text \in OptionTexts},
   json : BOOLEAN, unsafe : BOOLEAN, production : {FALSE},
   mode : {"unset", "extend", "strict"}, exclude : {<<>>}, include : {<<>>}]
  \cup FilterOptions

\* `let config: ConfigMap = {}`
NoMainConfig ==
  [excludeDev |-> FALSE, production |-> FALSE, minDays |-> <<>>,
   allow |-> EmptyMap, deny |-> EmptyMap, allowFrom |-> EmptyMap,
   json |-> FALSE, unsafe |-> FALSE, mode |-> "unset",
   exclude |-> <<>>, include |-> <<>>]

\* What the configuration file may hold
ConfigFiles ==
  {NoMainConfig, [NoMainConfig EXCEPT !.minDays = <<30>>],
   [NoMainConfig EXCEPT !.exclude = <<<<>>>>],
   [NoMainConfig EXCEPT !.production = TRUE]}

MainEdge(name, spec, to) == [node |-> Root, name |-> name, dev |-> FALSE, spec |-> spec, to |-> to]

MainTrees ==
  {[NoTree EXCEPT !.edges = {MainEdge("a", Caret(<<1, 0, 0>>), <<1, 2, 3>>)}],
   [NoTree EXCEPT !.edges = {MainEdge("a", Caret(<<1, 0, 0>>), <<1, 2, 3>>),
                             MainEdge("b", Tilde(<<1, 2, 0>>), NoVersion)}]}

MainLockfiles ==
  {<<>>,
   <<ParsedEntry(<<"a", "@", "^1.0.0">>, <<1, 2, 3>>)>>,
   <<ParsedEntry(<<"a", "@", "^1.0.0">>, <<1, 2, 3>>),
     ParsedEntry(<<"a", "@", "^2.0.0">>, <<2, 0, 0>>)>>,
   <<ParsedEntry(<<"a", "@", "^1.0.0">>, <<1, 2, 3>>),
     ParsedEntry(<<"a", "@", "npm", ":", "~1.2.0">>, <<1, 2, 3>>)>>}

MainNow == Days(35)

\* `time` of the packuments the registry may answer with: a version that is 15
\* days old, and with it one published less than a day ago
MainTimeMaps ==
  {[v \in {<<1, 2, 3>>} |-> Days(20)],
   [v \in {<<1, 2, 3>>, <<1, 3, 0>>} |-> IF v = <<1, 2, 3>> THEN Days(20) ELSE Days(35) - 1]}

MainAdvisory(severity, tested) ==
  [name |-> "a",
   advisory |-> [versions |-> << <<1, 2, 3>>, <<1, 3, 0>>, <<1, 3, 1>> >>,
                 vulnerableVersions |-> {<<1, 2, 3>>, <<1, 3, 0>>},
                 testVersion |-> tested, severity |-> severity]]

\* What the bulk advisory request may answer with, as the items to calculate
AdvisoryResponses ==
  {<<>>,
   <<MainAdvisory("high", {<<1, 2, 3>>, <<1, 3, 0>>})>>,
   <<MainAdvisory("high", {<<1, 2, 3>>, <<1, 3, 0>>}), MainAdvisory("low", {<<1, 2, 3>>})>>}

-----------------------------------------------------------------------------
(* Flattening of a resolution graph *)

InitFlat ==
  /\ pc = "start"
  /\ tree \in Trees
  /\ config \in FlatConfigs
  /\ dependencies = EmptyMap
  /\ packuments = <<>>
  /\ vulnerabilities = EmptyMap
  /\ now = 0
  /\ validations = EmptyMap
  /\ NotInMain

\* `dependencies = buildFlatDependencies(tree, config)`
Flatten ==
  /\ pc = "start"
  /\ pc' = "flattened"
  /\ dependencies' = buildFlatDependencies(tree, Root, config)
  /\ UNCHANGED <<stack, tree, config, packuments, vulnerabilities, now, validations, mainVars>>

NextFlat == Flatten

SpecFlat == InitFlat /\ [][NextFlat]_vars

-----------------------------------------------------------------------------
(* Validation of the fetched packuments *)

InitValidate ==
  /\ pc = "resolved"
  /\ tree = NoTree
  /\ config \in ValidateConfigs
  /\ dependencies \in DependencyMaps
  /\ packuments \in PackumentLists
  /\ vulnerabilities = EmptyMap
  /\ now \in NowPool
  /\ validations = EmptyMap
  /\ NotInMain

\* `validations = validateDependencies(dependencies, packuments, vulnerabilities, config)`
Validate ==
  /\ pc = "resolved"
  /\ pc' = "validated"
  /\ validations' = validateDependencies(dependencies, packuments, vulnerabilities, config, now)
  /\ dependencies' = DependenciesAfterValidate(dependencies, packuments, config)
  /\ UNCHANGED <<stack, tree, config, packuments, vulnerabilities, now, mainVars>>

NextValidate == Validate

SpecValidate == InitValidate /\ [][NextValidate]_vars

-----------------------------------------------------------------------------
(* Loading of the dependency mapping, from a resolution graph or a lockfile *)

InitYarn ==
  /\ pc = "lockfile"
  /\ tree = NoTree
  /\ config = NoConfig
  /\ dependencies = EmptyMap
  /\ packuments = <<>>
  /\ vulnerabilities = EmptyMap
  /\ now = 0
  /\ validations = EmptyMap
  /\ options = NoOptions
  /\ lockfile \in Lockfiles
  /\ requests = EmptyMap
  /\ advisories = NoAdvisories
  /\ output = <<>>
  /\ exitCode = <<>>
  /\ stack = <<>>

\* `dependencies = await loadYarnLockfileDependencies(yarnLockfilePath)`
LoadYarn ==
  /\ pc = "lockfile"
  /\ pc' = "loaded"
  /\ dependencies' = loadYarnLockfileDependencies(lockfile)
  /\ UNCHANGED <<stack, tree, config, packuments, vulnerabilities, now, validations, mainVars>>

InitLoad == InitFlat \/ InitYarn

NextLoad == Flatten \/ LoadYarn

SpecLoad == InitLoad /\ [][NextLoad]_vars

-----------------------------------------------------------------------------
(* Validation with advisories *)

InitAdvised ==
  /\ pc = "resolved"
  /\ tree = NoTree
  /\ config \in AdvisedConfigs
  /\ dependencies \in AdvisedDependencyMaps
  /\ packuments \in AdvisedPackumentLists
  /\ vulnerabilities \in VulnerabilityMaps
  /\ now \in {Days(35), Days(52) + 1}
  /\ validations = EmptyMap
  /\ NotInMain

NextAdvised == Validate

SpecAdvised == InitAdvised /\ [][NextAdvised]_vars

-----------------------------------------------------------------------------
(* main, from the configuration to the exit code *)

InitMain ==
  /\ pc = "launched"
  /\ tree = NoTree
  /\ config = NoMainConfig
  /\ dependencies = EmptyMap
  /\ packuments = <<>>
  /\ vulnerabilities = EmptyMap
  /\ now = MainNow
  /\ validations = EmptyMap
  /\ options \in MainOptions
  /\ lockfile = <<>>
  /\ requests = EmptyMap
  /\ advisories = NoAdvisories
  /\ output = <<>>
  /\ exitCode = <<>>
  /\ stack = <<>>

\* `process.exit(code)` after an error was logged
ExitWith(message, code) ==
  /\ pc' = "exited"
  /\ output' = Append(output, Line("error", message, <<>>))
  /\ exitCode' = <<code>>

\* The configuration file was read
ReadConfig ==
  /\ pc = "launched"
  /\ \E file \in ConfigFiles : config' = file
  /\ pc' = "options"
  /\ UNCHANGED <<stack, tree, dependencies, packuments, vulnerabilities, now, validations, mainVars>>

\* The configuration file is missing though it was specified, or cannot be read
ConfigUnreadable ==
  /\ pc = "launched"
  /\ ExitWith("Cannot read config file", ExitCode.ERROR)
  /\ UNCHANGED <<stack, tree, config, dependencies, packuments, vulnerabilities, now, validations,
                 options, lockfile, requests, advisories>>

ParseOptions ==
  /\ pc = "options"
  /\ config' = ApplyOptions(config, options)
  /\ pc' = "configured"
  /\ UNCHANGED <<stack, tree, dependencies, packuments, vulnerabilities, now, validations, mainVars>>

\* `tree = await arborist.loadVirtual()` or `loadActual()`
LoadTree ==
  /\ pc = "configured"
  /\ \E t \in MainTrees : tree' = t
  /\ pc' = "start"
  /\ UNCHANGED <<stack, config, dependencies, packuments, vulnerabilities, now, validations, mainVars>>

\* Only yarn.lock was found, and it was read and parsed
ReadLockfile ==
  /\ pc = "configured"
  /\ \E parsed \in MainLockfiles : lockfile' = parsed
  /\ pc' = "lockfile"
  /\ UNCHANGED <<stack, tree, config, dependencies, packuments, vulnerabilities, now, validations,
                 options, requests, advisories, output, exitCode>>

\* Neither a lockfile nor node_modules
NoProjectInputs ==
  /\ pc = "configured"
  /\ ExitWith("Cannot find package-lock.json file or node_modules folder", ExitCode.ERROR)
  /\ UNCHANGED <<stack, tree, config, dependencies, packuments, vulnerabilities, now, validations,
                 options, lockfile, requests, advisories>>

\* processDependencies up to `Promise.all(promises)`: every request is issued
IssueRequests ==
  /\ pc \in {"flattened", "loaded"}
  /\ requests' = processDependencies(dependencies, config)
  /\ pc' = "fetching"
  /\ UNCHANGED <<stack, tree, config, dependencies, packuments, vulnerabilities, now, validations,
                 options, lockfile, advisories, output, exitCode>>

\* The registry answers the request for `name`
RequestFulfilled(name) ==
  /\ pc = "fetching"
  /\ name \in DOMAIN requests
  /\ requests[name].state = "pending"
  /\ \E tm \in MainTimeMaps :
       requests' = [requests EXCEPT ![name].state = "fulfilled", ![name].time = tm]
  /\ UNCHANGED <<stack, pc, tree, config, dependencies, packuments, vulnerabilities, now, validations,
                 options, lockfile, advisories, output, exitCode>>

\* The request for `name` fails
RequestRejected(name) ==
  /\ pc = "fetching"
  /\ name \in DOMAIN requests
  /\ requests[name].state = "pending"
  /\ requests' = [requests EXCEPT ![name].state = "rejected"]
  /\ UNCHANGED <<stack, pc, tree, config, dependencies, packuments, vulnerabilities, now, validations,
                 options, lockfile, advisories, output, exitCode>>

\* `packuments = await processDependencies(dependencies, config)` returns
MetadataResolved ==
  /\ pc = "fetching"
  /\ AllFulfilled(requests)
  /\ packuments' = Packuments(requests)
  /\ pc' = "metadata"
  /\ UNCHANGED <<stack, tree, config, dependencies, vulnerabilities, now, validations, mainVars>>

\* The same await throws: the `catch` logs the error and exits
MetadataFailed ==
  /\ pc = "fetching"
  /\ AnyRejected(requests)
  /\ ExitWith("Error while retrieving packages metadata", ExitCode.ERROR)
  /\ UNCHANGED <<stack, tree, config, dependencies, packuments, vulnerabilities, now, validations,
                 options, lockfile, requests, advisories>>

\* `config.mode !== 'common'` is false
SkipAdvisories ==
  /\ pc = "metadata"
  /\ config.mode = "common"
  /\ pc' = "resolved"
  /\ UNCHANGED <<stack, tree, config, dependencies, packuments, vulnerabilities, now, validations,
                 mainVars>>

\* The bulk request was answered: `advisories = await request.json()`
FetchAdvisories ==
  /\ pc = "metadata"
  /\ config.mode # "common"
  /\ \E items \in AdvisoryResponses : advisories' = [items |-> items, done |-> 0]
  /\ pc' = "advising"
  /\ UNCHANGED <<stack, tree, config, dependencies, packuments, vulnerabilities, now, validations,
                 options, lockfile, requests, output, exitCode>>

\* The `catch` of the advisory block: a warning, and main goes on
AdvisoryWarning ==
  /\ pc' = "resolved"
  /\ output' = Append(output, Line("warn", "Cannot get security advisories", <<>>))
  /\ UNCHANGED <<stack, tree, config, dependencies, packuments, vulnerabilities, now, validations,
                 options, lockfile, requests, advisories, exitCode>>

\* The bulk request or the reading of its answer fails
FetchAdvisoriesFailed ==
  /\ pc = "metadata"
  /\ config.mode # "common"
  /\ AdvisoryWarning

\* `advisory = await calculator.calculate(name, item)` and the two lines after it
CalculateAdvisory ==
  /\ pc = "advising"
  /\ advisories.done < Len(advisories.items)
  /\ vulnerabilities' = AddAdvisory(vulnerabilities, advisories.items[advisories.done + 1])
  /\ advisories' = [advisories EXCEPT !.done = @ + 1]
  /\ UNCHANGED <<stack, pc, tree, config, dependencies, packuments, now, validations,
                 options, lockfile, requests, output, exitCode>>

\* The calculation of the next advisory fails
CalculateAdvisoryFailed ==
  /\ pc = "advising"
  /\ advisories.done < Len(advisories.items)
  /\ AdvisoryWarning

\* The loops over the advisories end
AdvisoriesCalculated ==
  /\ pc = "advising"
  /\ advisories.done = Len(advisories.items)
  /\ pc' = "resolved"
  /\ UNCHANGED <<stack, tree, config, dependencies, packuments, vulnerabilities, now, validations,
                 mainVars>>

\* The output of the Verdicts and `process.exit(fullSafe ? ExitCode.OK : ExitCode.FAIL)`
Report ==
  /\ pc = "validated"
  /\ output' = output \o ReportOutput(validations, config)
  /\ exitCode' = <<IF FullSafe(validations, Keys(validations))
                   THEN ExitCode.OK ELSE ExitCode.FAIL>>
  /\ pc' = "exited"
  /\ UNCHANGED <<stack, tree, config, dependencies, packuments, vulnerabilities, now, validations,
                 options, lockfile, requests, advisories>>

NextMain ==
  \/ ReadConfig
  \/ ConfigUnreadable
  \/ ParseOptions
  \/ LoadTree
  \/ Flatten
  \/ ReadLockfile
  \/ LoadYarn
  \/ NoProjectInputs
  \/ IssueRequests
  \/ \E name \in Names : RequestFulfilled(name)
  \/ \E name \in Names : RequestRejected(name)
  \/ MetadataResolved
  \/ MetadataFailed
  \/ SkipAdvisories
  \/ FetchAdvisories
  \/ FetchAdvisoriesFailed
  \/ CalculateAdvisory
  \/ CalculateAdvisoryFailed
  \/ AdvisoriesCalculated
  \/ Validate
  \/ Report

SpecMain == InitMain /\ [][NextMain]_vars

\* The continuation of `await processDependencies(...)` runs once the promise is rejected
SpecMainFair == SpecMain /\ WF_vars(MetadataFailed)

-----------------------------------------------------------------------------
(* buildFlatDependencies call by call, on graphs whose children mappings may *)
(* lead back to a node: `tree` is a record [children, edges] with the        *)
(* children of every node in the iteration order of its Map.  A frame of the *)
(* call stack holds the node of the call, its local `dependencies` and the   *)
(* children the second loop has still to visit.                              *)

\* The depth of the call stack at which the engine throws a RangeError
MaxStack == 4

\* The children Maps of a node: Nodes of the graph, the node itself included
ChildLists == {<<>>, <<1>>, <<2>>, <<3>>, <<2, 3>>, <<3, 2>>}

\* The edges of the graphs: an edge of the root, of a child, of both
GraphEdgeSets ==
  {{[node |-> 1, name |-> "a", dev |-> FALSE, spec |-> Caret(<<1, 0, 0>>), to |-> <<1, 2, 3>>]},
   {[node |-> 2, name |-> "a", dev |-> TRUE, spec |-> Tilde(<<1, 2, 0>>), to |-> NoVersion]},
   {[node |-> 1, name |-> "a", dev |-> FALSE, spec |-> Caret(<<1, 0, 0>>), to |-> <<1, 2, 3>>],
    [node |-> 3, name |-> "b", dev |-> FALSE, spec |-> Tilde(<<1, 2, 0>>), to |-> NoVersion]}}

Graphs == [children : [Nodes -> ChildLists], edges : GraphEdgeSets]

\* The frame of a call of buildFlatDependencies after its loop over edgesOut
Frame(t, n, cfg) ==
  [node |-> n,
   dependencies |-> CollectEdges(EmptyMap, EdgesOut(t, n), cfg),
   children |-> t.children[n]]

InitWalk ==
  /\ pc = "start"
  /\ tree \in Graphs
  /\ config \in FlatConfigs
  /\ dependencies = EmptyMap
  /\ packuments = <<>>
  /\ vulnerabilities = EmptyMap
  /\ now = 0
  /\ validations = EmptyMap
  /\ NotInMain

\* `dependencies = buildFlatDependencies(tree, config)` is called
CallWalk ==
  /\ pc = "start"
  /\ pc' = "walking"
  /\ stack' = <<Frame(tree, Root, config)>>
  /\ UNCHANGED <<tree, config, dependencies, packuments, vulnerabilities, now, validations,
                 options, lockfile, requests, advisories, output, exitCode>>

\* `buildFlatDependencies(subTree, config)` for the next child of the node on top
Descend ==
  /\ pc = "walking"
  /\ stack[Len(stack)].children # <<>>
  /\ Len(stack) < MaxStack
  /\ stack' = Append(stack, Frame(tree, Head(stack[Len(stack)].children), config))
  /\ UNCHANGED <<pc, tree, config, dependencies, packuments, vulnerabilities, now, validations,
                 options, lockfile, requests, advisories, output, exitCode>>

\* The same call with the call stack exhausted: the RangeError ends the process
StackOverflow ==
  /\ pc = "walking"
  /\ stack[Len(stack)].children # <<>>
  /\ Len(stack) = MaxStack
  /\ pc' = "overflow"
  /\ UNCHANGED <<stack, tree, config, dependencies, packuments, vulnerabilities, now,
                 validations, options, lockfile, requests, advisories, output, exitCode>>

\* A call inside the walk returns: its caller merges the result and goes on
ReturnToCaller ==
  /\ pc = "walking"
  /\ Len(stack) > 1
  /\ stack[Len(stack)].children = <<>>
  /\ stack' = [SubSeq(stack, 1, Len(stack) - 1) EXCEPT
                 ![Len(stack) - 1].dependencies =
                    MergeMaps(@, stack[Len(stack)].dependencies),
                 ![Len(stack) - 1].children = Tail(@)]
  /\ UNCHANGED <<pc, tree, config, dependencies, packuments, vulnerabilities, now, validations,
                 options, lockfile, requests, advisories, output, exitCode>>

\* The call of main returns
ReturnToMain ==
  /\ pc = "walking"
  /\ Len(stack) = 1
  /\ stack[1].children = <<>>
  /\ dependencies' = stack[1].dependencies
  /\ stack' = <<>>
  /\ pc' = "flattened"
  /\ UNCHANGED <<tree, config, packuments, vulnerabilities, now, validations,
                 options, lockfile, requests, advisories, output, exitCode>>

NextWalk == CallWalk \/ Descend \/ StackOverflow \/ ReturnToCaller \/ ReturnToMain

SpecWalk == InitWalk /\ [][NextWalk]_vars

-----------------------------------------------------------------------------
(* processDependencies on its own: every dependency mapping and every        *)
(* include and exclude list, from the call to the settling of Promise.all    *)

\* The specs of the records: two of them have the same minimum version
ProcessSpecs == RecordSpecs \cup {Tilde(<<2, 0, 0>>)}

ProcessRecords == [specs : DistinctSeqs(ProcessSpecs, MaxSpecs), versions : {<<>>}]

\* A record for "a" or none, a record for "b" or none
ProcessDependencyMaps ==
  {[k \in S |-> IF k = "a" THEN r ELSE [specs |-> <<Tilde(<<1, 2, 0>>)>>, versions |-> <<>>]] :
     S \in SUBSET Names, r \in ProcessRecords}

\* The include and exclude lists: undefined, or an array of patterns
ProcessConfigs ==
  {[NoMainConfig EXCEPT !.include = inc, !.exclude = ex] :
     inc \in {<<>>, <<<<"a">>>>, <<<<"a", "b">>>>},
     ex \in {<<>>, <<<<"b">>>>, <<<<"">>>>, <<<<"@s/*", "b">>>>, <<<<>>>>}}

InitProcess ==
  /\ pc = "loaded"
  /\ tree = NoTree
  /\ config \in ProcessConfigs
  /\ dependencies \in ProcessDependencyMaps
  /\ packuments = <<>>
  /\ vulnerabilities = EmptyMap
  /\ now = MainNow
  /\ validations = EmptyMap
  /\ options = NoOptions
  /\ lockfile = <<>>
  /\ requests = EmptyMap
  /\ advisories = NoAdvisories
  /\ output = <<>>
  /\ exitCode = <<>>
  /\ stack = <<>>

NextProcess ==
  \/ IssueRequests
  \/ \E name \in Names : RequestFulfilled(name)
  \/ \E name \in Names : RequestRejected(name)
  \/ MetadataResolved
  \/ MetadataFailed

SpecProcess == InitProcess /\ [][NextProcess]_vars

-----------------------------------------------------------------------------
(* Vocabulary of the properties *)

\* Versions on which two ranges are compared
VersionUniverse == {<<x, y, z>> : x \in 0..3, y \in 0..3, z \in 0..3}

\* The versions of the universe a spec admits
Satisfying(spec) == {v \in VersionUniverse : versionSatisfies(v, spec)}

\* The pairs <<sub, dom>> of specs where sub admits no version that dom does not admit
SubRanges ==
  {<<p[1], p[2]>> :
     p \in {q \in RecordSpecs \X RecordSpecs : Satisfying(q[1]) \subseteq Satisfying(q[2])}}

SubRange(sub, dom) == <<sub, dom>> \in SubRanges

\* The specs of the edges named `name` that survive dev filtering, over all nodes
SurvivingSpecs(name) ==
  {e.spec : e \in {f \in tree.edges : f.name = name /\ ~(config.excludeDev /\ f.dev)}}

SpecsOf(deps, name) == IF name \in DOMAIN deps THEN Range(deps[name].specs) ELSE {}

VersionsOf(deps, name) == IF name \in DOMAIN deps THEN Range(deps[name].versions) ELSE {}

\* The packument of package `name` among those fetched
PackumentOf(name) == CHOOSE p \in Range(packuments) : p.name = name

PackageNames == {packuments[i].name : i \in 1..Len(packuments)}

\* Constraint-range mode decides the effective specs of the record of `name`
ConstraintMode(name) ==
  /\ name \in DOMAIN dependencies
  /\ ~(config.production /\ dependencies[name].versions # <<>>)

\* The versions of the Verdicts of `name`, in the order they were emitted
VerdictVersions(name) ==
  IF name \in DOMAIN validations
  THEN [i \in 1..Len(validations[name]) |-> validations[name][i].version]
  ELSE <<>>

\* The versions the effective specs of `name` resolve to, in the order of the loop
ResolvedVersions(name) ==
  LET eff == EffectiveSpecs(dependencies, name, config)
  IN [i \in 1..Len(eff) |-> ResolveVersion(PackumentOf(name), eff[i])]

\* The publication time the registry gives for a version, `now` when it gives none
PublishedAt(name, version) ==
  LET tm == PackumentOf(name).time
  IN IF version \in DOMAIN tm THEN tm[version] ELSE now

\* The threshold in force
Threshold == IF config.minDays = <<>> THEN 14 ELSE config.minDays[1]

-----------------------------------------------------------------------------
(* Properties of buildFlatDependencies *)

\* C1: for every package name, the specs of the flattened record are the union of the
\* specs of all edges of that name that survive dev filtering, over the root and every
\* descendant; a child's contribution is unioned with what was collected, never replaces it.
C1_SpecsAreUnionOfEdges ==
  pc = "flattened" =>
    \A name \in Names : SpecsOf(dependencies, name) = SurvivingSpecs(name)

\* C2: buildFlatDependencies returns the same mapping (same keys, same specs sets, same
\* versions sets) whatever order the children of a node are visited in.
C2_VisitOrderIrrelevant ==
  pc = "flattened" =>
    LET other == buildFlatDependencies([tree EXCEPT !.reversed = ~@], Root, config)
    IN /\ DOMAIN other = DOMAIN dependencies
       /\ \A name \in DOMAIN dependencies :
            /\ SpecsOf(other, name) = SpecsOf(dependencies, name)
            /\ VersionsOf(other, name) = VersionsOf(dependencies, name)

-----------------------------------------------------------------------------
(* Properties of the reconciliation of specs in validateDependencies *)

\* The set of effective specs of the record of `name`
Kept(name) == Range(EffectiveSpecs(dependencies, name, config))

C4_TwoSpecsKeepSubRange ==
  pc = "validated" =>
    \A name \in PackageNames :
      (ConstraintMode(name) /\ Len(dependencies[name].specs) = 2) =>
        \A i, j \in 1..2 :
          \A A \in {dependencies[name].specs[i]}, B \in {dependencies[name].specs[j]} :
            (i # j /\ SubRange(A, B) /\ ~SubRange(B, A)) =>
              \A known \in {KnownVersions(PackumentOf(name)) \cap Satisfying(A)},
                 verdicts \in {VerdictVersions(name)} :
                /\ EffectiveSpecs(dependencies, name, config) = <<A>>
                /\ Len(verdicts) <= 1
                /\ \A k \in 1..Len(verdicts) :
                     IF known = {} THEN verdicts[k] = ZeroVersion
                     ELSE /\ verdicts[k] \in known
                          /\ \A w \in known : ~isGreaterVersion(w, verdicts[k])

\* C4 witness: the record holds ^1.0.0 and ~1.2.0, the registry knows 1.2.3 and 1.3.0,
\* and the one Verdict is for 1.2.3, the version ~1.2.0 resolves to.
C4_Witness ==
  /\ pc = "validated"
  /\ "a" \in DOMAIN dependencies
  /\ ConstraintMode("a")
  /\ dependencies["a"].specs = <<Caret(<<1, 0, 0>>), Tilde(<<1, 2, 0>>)>>
  /\ {<<1, 2, 3>>, <<1, 3, 0>>} \subseteq KnownVersions(PackumentOf("a"))
  /\ VerdictVersions("a") = << <<1, 2, 3>> >>

-----------------------------------------------------------------------------
(* Properties of the policy checks of validateDependencies *)

\* C5: when a deny-range is configured for a package and the version resolved for an
\* effective spec satisfies it, no Verdict is emitted for that spec: no Verdict of the
\* package carries a version that satisfies its deny-range.
C5_DenySuppresses ==
  pc = "validated" =>
    \A name \in DOMAIN validations :
      name \in DOMAIN config.deny =>
        \A i \in 1..Len(validations[name]) :
          ~versionSatisfies(validations[name][i].version, config.deny[name])

\* C6: when an allow-range is configured for a package, no Verdict is emitted for a
\* resolved version that does not satisfy it, whatever deny, allowFrom, the age and
\* minDays are; when none is configured for the package, every resolved version that
\* passes the deny and allowFrom checks gets its Verdict.
C6_AllowSuppresses ==
  pc = "validated" =>
    \A name \in PackageNames :
      \A verdicts \in {VerdictVersions(name)} :
        IF name \in DOMAIN config.allow
        THEN \A i \in 1..Len(verdicts) : verdicts[i] \in Satisfying(config.allow[name])
        ELSE verdicts =
               SelectSeq(ResolvedVersions(name),
                         LAMBDA v : DenyPasses(config, name, v)
                                    /\ AllowFromPasses(config, name, now))

\* C6 witness: an allow-range is configured for "a", an effective spec resolved to a
\* version outside it and another to a version inside it, and only the latter has a Verdict.
C6_Witness ==
  /\ pc = "validated"
  /\ "a" \in DOMAIN config.allow
  /\ \E i \in 1..Len(ResolvedVersions("a")) :
       ResolvedVersions("a")[i] \notin Satisfying(config.allow["a"])
  /\ Len(VerdictVersions("a")) = 1
  /\ Len(ResolvedVersions("a")) = 2

\* C7: for a package with grandfather date D and threshold N, no Verdict is emitted
\* while now < D + N days, whatever the publish timestamps are; once now >= D + N days
\* every resolved version that passes the allow and deny checks gets its Verdict.
C7_GrandfatherSuppresses ==
  pc = "validated" =>
    \A name \in PackageNames :
      name \in DOMAIN config.allowFrom =>
        IF now < config.allowFrom[name] + Threshold * TicksPerDay
        THEN name \notin DOMAIN validations
        ELSE VerdictVersions(name) =
               SelectSeq(ResolvedVersions(name),
                         LAMBDA v : AllowPasses(config, name, v) /\ DenyPasses(config, name, v))

\* C7, the other side: now is exactly D + N days and the package has a Verdict.
C7_BoundaryReached ==
  /\ pc = "validated"
  /\ "a" \in DOMAIN config.allowFrom
  /\ now = config.allowFrom["a"] + Threshold * TicksPerDay
  /\ "a" \in DOMAIN validations

\* C7 witness: now is before D + N days, the registry knows a version published
\* more than N days ago, and the package has no Verdict.
C7_Witness ==
  /\ pc = "validated"
  /\ "a" \in DOMAIN config.allowFrom
  /\ now < config.allowFrom["a"] + Threshold * TicksPerDay
  /\ \E i \in 1..Len(ResolvedVersions("a")) :
       now - PublishedAt("a", ResolvedVersions("a")[i]) > Threshold * TicksPerDay
  /\ "a" \notin DOMAIN validations

\* C8 (as stated): for a package with a grandfather date, daysSincePublish and safe of
\* an emitted Verdict are computed from the grandfather date instead of the publish
\* timestamp of the resolved version.
C8_AgeFromGrandfatherDate ==
  pc = "validated" =>
    \A name \in DOMAIN validations :
      name \in DOMAIN config.allowFrom =>
        \A i \in 1..Len(validations[name]) :
          /\ validations[name][i].daysSincePublish
               = (now - config.allowFrom[name]) \div TicksPerDay
          /\ validations[name][i].safe
               = (now - config.allowFrom[name] >= Threshold * TicksPerDay)

\* C8 (amended): the grandfather date only decides whether Verdicts are emitted; for a
\* package with a grandfather date, daysSincePublish and safe of an emitted Verdict are
\* still computed from the publish timestamp of the resolved version, so a version
\* published less than minDays ago is reported unsafe however old the grandfather date is.
C8_GrandfatheredAgeFromPublishDate ==
  pc = "validated" =>
    \A name \in DOMAIN validations :
      name \in DOMAIN config.allowFrom =>
        \A i \in 1..Len(validations[name]) :
          \A age \in {now - PublishedAt(name, validations[name][i].version)} :
            /\ validations[name][i].daysSincePublish * TicksPerDay <= age
            /\ age < (validations[name][i].daysSincePublish + 1) * TicksPerDay
            /\ validations[name][i].safe = (age >= Threshold * TicksPerDay)

\* C8 witness: the grandfather date is at least minDays old, the resolved version was
\* published less than minDays ago, and its Verdict is unsafe.
C8_Witness ==
  /\ pc = "validated"
  /\ "a" \in DOMAIN config.allowFrom
  /\ now - config.allowFrom["a"] >= Threshold * TicksPerDay
  /\ "a" \in DOMAIN validations
  /\ \E i \in 1..Len(validations["a"]) :
       /\ now - PublishedAt("a", validations["a"][i].version) < Threshold * TicksPerDay
       /\ ~validations["a"][i].safe

\* C9: every Verdict has daysSincePublish equal to the floor of the days between now
\* and the publish timestamp of its resolved version, and safe = TRUE exactly when
\* daysSincePublish >= minDays, minDays being 14 when the config does not set it.
C9_AgeAndSafe ==
  pc = "validated" =>
    \A name \in DOMAIN validations :
      \A i \in 1..Len(validations[name]) :
        \A age \in {now - PublishedAt(name, validations[name][i].version)} :
          /\ validations[name][i].daysSincePublish * TicksPerDay <= age
          /\ age < (validations[name][i].daysSincePublish + 1) * TicksPerDay
          /\ validations[name][i].safe
               = (validations[name][i].daysSincePublish
                    >= (IF config.minDays = <<>> THEN 14 ELSE config.minDays[1]))

\* C9 witness: minDays is not set, a Verdict is for a version published exactly 14
\* days ago and is safe, and another is for a version published a fraction over a day ago.
C9_Witness ==
  /\ pc = "validated"
  /\ config.minDays = <<>>
  /\ "a" \in DOMAIN validations
  /\ \E i \in 1..Len(validations["a"]) :
       /\ now - PublishedAt("a", validations["a"][i].version) = 14 * TicksPerDay
       /\ validations["a"][i].safe
  /\ \E i \in 1..Len(validations["a"]) :
       /\ (now - PublishedAt("a", validations["a"][i].version)) % TicksPerDay # 0
       /\ ~validations["a"][i].safe

\* Thresholds a run is compared at
HigherThresholds == {n \in {2, 14, 15, 30, 31} : n > Threshold}

\* C10: with the resolved version, the publish timestamp and now fixed, and no
\* grandfather date for the package, raising minDays never turns an unsafe Verdict
\* into a safe one.
C10_RaisingMinDaysNeverMakesSafe ==
  pc = "validated" =>
    \A higher \in HigherThresholds :
      \A other \in {validateDependencies(dependencies, packuments, vulnerabilities,
                                         [config EXCEPT !.minDays = <<higher>>], now)} :
        \A name \in PackageNames :
          name \notin DOMAIN config.allowFrom =>
            /\ (name \in DOMAIN other) = (name \in DOMAIN validations)
            /\ name \in DOMAIN validations =>
                 /\ Len(other[name]) = Len(validations[name])
                 /\ \A i \in 1..Len(validations[name]) :
                      /\ other[name][i].version = validations[name][i].version
                      /\ ~validations[name][i].safe => ~other[name][i].safe

\* C10 witness: a Verdict that is safe at the threshold in force and unsafe at a
\* higher one, beside one that is unsafe at both.
C10_Witness ==
  /\ pc = "validated"
  /\ "a" \in DOMAIN validations
  /\ "a" \notin DOMAIN config.allowFrom
  /\ \E i \in 1..Len(validations["a"]) : ~validations["a"][i].safe
  /\ \E i \in 1..Len(validations["a"]) :
       /\ validations["a"][i].safe
       /\ \E higher \in HigherThresholds :
            ~validateDependencies(dependencies, packuments, vulnerabilities,
                                  [config EXCEPT !.minDays = <<higher>>], now)["a"][i].safe

-----------------------------------------------------------------------------
(* Properties of the recommendations *)

\* The advisories of `name` whose testVersion accepts `version`, in their order
Applicable(name, version) ==
  IF name \in DOMAIN vulnerabilities
  THEN SelectSeq(vulnerabilities[name], LAMBDA advisory : version \in advisory.testVersion)
  ELSE <<>>

\* The versions of the advisory's list above `version` that are not vulnerable
FixCandidates(advisory, version) ==
  {v \in Range(advisory.versions) :
     VersionCompare(v, version) > 0 /\ v \notin advisory.vulnerableVersions}

\* C11: a Verdict has one Recommendation for each advisory of the package whose
\* testVersion accepts the resolved version, and its fixedVersion is the lowest
\* version of the advisory's list that is greater than the resolved version and not
\* vulnerable, null (NoVersion) when there is none.
C11_FixedVersionIsLowestGood ==
  pc = "validated" =>
    \A name \in DOMAIN validations :
      \A i \in 1..Len(validations[name]) :
        \A applicable \in {Applicable(name, validations[name][i].version)} :
          /\ Len(validations[name][i].recommendations) = Len(applicable)
          /\ \A j \in 1..Len(applicable) :
               \A good \in {FixCandidates(applicable[j], validations[name][i].version)},
                  fixed \in {validations[name][i].recommendations[j].fixedVersion} :
                 /\ (good = {}) = (fixed = NoVersion)
                 /\ good # {} =>
                      /\ fixed \in good
                      /\ \A v \in good : VersionCompare(fixed, v) <= 0

\* C11 witness: the Verdict of 2.0.0 with an advisory whose vulnerable versions are
\* 2.0.0 and 2.0.1 and whose list holds 2.1.0 before 2.0.2: the fixedVersion is 2.0.2.
C11_Witness ==
  /\ pc = "validated"
  /\ "a" \in DOMAIN validations
  /\ "a" \in DOMAIN vulnerabilities
  /\ vulnerabilities["a"][1].vulnerableVersions = {<<2, 0, 0>>, <<2, 0, 1>>}
  /\ vulnerabilities["a"][1].versions[1] = <<2, 1, 0>>
  /\ \E i \in 1..Len(validations["a"]) :
       /\ validations["a"][i].version = <<2, 0, 0>>
       /\ Len(validations["a"][i].recommendations) = 2
       /\ validations["a"][i].recommendations[1].fixedVersion = <<2, 0, 2>>

-----------------------------------------------------------------------------
(* Properties of main *)

SomeRequestFailed == \E name \in DOMAIN requests : requests[name].state = "rejected"

EveryRequestAnswered ==
  \A name \in DOMAIN requests : requests[name].state = "fulfilled"

\* C12: once a metadata request of the batch has failed, main holds no metadata,
\* validateDependencies is not run, nothing but the error is printed, and the
\* process ends with exit code 2.
C12_FailedRequestFailsBatch ==
  /\ [](SomeRequestFailed =>
          /\ packuments = <<>>
          /\ validations = EmptyMap
          /\ pc \in {"fetching", "exited"}
          /\ \A i \in 1..Len(output) : output[i].level = "error"
          /\ exitCode \in {<<>>, <<ExitCode.ERROR>>})
  /\ (SomeRequestFailed ~> (pc = "exited" /\ exitCode = <<ExitCode.ERROR>>))

\* C12 witness: the request for "b" failed, the one for "a" was answered, and the
\* process has ended with exit code 2.
C12_Witness ==
  /\ pc = "exited"
  /\ DOMAIN requests = {"a", "b"}
  /\ requests["a"].state = "fulfilled"
  /\ requests["b"].state = "rejected"
  /\ exitCode = <<2>>
  /\ validations = EmptyMap

AdvisoryFailureLogged ==
  \E i \in 1..Len(output) : output[i].message = "Cannot get security advisories"

\* C13: when the advisory fetch or the calculation of an advisory has failed, the run
\* goes on to validateDependencies, every fetched package is validated, and every
\* Verdict has an empty recommendations list, even when advisories had been
\* calculated before the failure.
C13_FailureDropsAdvisories ==
  AdvisoryFailureLogged =>
    /\ exitCode # <<ExitCode.ERROR>>
    /\ pc \in {"resolved", "validated", "exited"}
    /\ pc \in {"validated", "exited"} =>
         /\ validations = validateDependencies(dependencies, packuments, EmptyMap, config, now)
         /\ \A name \in DOMAIN validations :
              \A i \in 1..Len(validations[name]) :
                validations[name][i].recommendations = <<>>

\* The Verdicts of every package
AllVerdicts == UNION {Range(validations[name]) : name \in DOMAIN validations}

\* The errors main exits on before it has validated anything
OperationalErrors ==
  {"Cannot read config file",
   "Cannot find package-lock.json file or node_modules folder",
   "Error while retrieving packages metadata"}

ErrorLogged == \E i \in 1..Len(output) : output[i].level = "error"

\* C14: a run that has validated exits with 0 exactly when every Verdict is safe and
\* with 1 exactly when a Verdict is unsafe, in JSON and in text output, with and
\* without the unsafe-only filter; exit code 2 is that of the operational errors,
\* which end the run before any validation.
C14_ExitCodeIsAllSafe ==
  pc = "exited" =>
    /\ exitCode \in {<<ExitCode.OK>>, <<ExitCode.FAIL>>, <<ExitCode.ERROR>>}
    /\ (exitCode = <<ExitCode.ERROR>>) = ErrorLogged
    /\ ErrorLogged =>
         /\ validations = EmptyMap
         /\ \A i \in 1..Len(output) :
              output[i].level = "error" => output[i].message \in OperationalErrors
    /\ ~ErrorLogged =>
         /\ validations = validateDependencies(dependencies, packuments, vulnerabilities,
                                               config, now)
         /\ (exitCode = <<ExitCode.OK>>) = (\A verdict \in AllVerdicts : verdict.safe)
         /\ (exitCode = <<ExitCode.FAIL>>) = (\E verdict \in AllVerdicts : ~verdict.safe)

\* C14 witness: JSON output with the unsafe-only filter, a package with a safe and an
\* unsafe Verdict, exit code 1.
C14_Witness ==
  /\ pc = "exited"
  /\ config.json
  /\ config.unsafe
  /\ exitCode = <<1>>
  /\ "a" \in DOMAIN validations
  /\ \E i, j \in 1..Len(validations["a"]) :
       validations["a"][i].safe /\ ~validations["a"][j].safe

\* The number given with --minDays, when it is a positive integer
OptionDays ==
  IF options.minDays = <<>> THEN <<>>
  ELSE LET days == parseInt(options.minDays[1])
       IN IF days # <<>> /\ days[1] > 0 THEN days ELSE <<>>

\* C15: run with `--minDays N` for a positive integer N, a Verdict is safe exactly
\* when its version was published at least N whole days ago.
C15_OptionSetsThreshold ==
  (pc \in {"validated", "exited"} /\ OptionDays # <<>>) =>
    \A verdict \in AllVerdicts :
      verdict.safe = (verdict.daysSincePublish >= OptionDays[1])

-----------------------------------------------------------------------------
(* Properties of the loaded dependency mapping *)

\* The entries of the lockfile that are neither skipped nor of a foreign protocol
AcceptedEntries(name) ==
  {entry \in Range(lockfile) :
     /\ entry.key # "__metadata"
     /\ entry.matched
     /\ entry.spec.op \in {"^", "~", "=", "*"}
     /\ entry.protocol \in {"", "npm:"}
     /\ entry.name = name}

\* The versions of the targets of the edges named `name` that survive dev filtering
SurvivingTargets(name) ==
  {e.to : e \in {f \in tree.edges : f.name = name /\ ~(config.excludeDev /\ f.dev)}}
    \ {NoVersion}

-----------------------------------------------------------------------------
(* Properties of the effective specs and of the resolution *)

\* The policy checks let `version` of package `name` through
PolicyPasses(name, version) ==
  /\ name \in DOMAIN config.allow => versionSatisfies(version, config.allow[name])
  /\ name \in DOMAIN config.deny => versionSatisfies(version, config.deny[name])
  /\ name \in DOMAIN config.allowFrom =>
       now >= config.allowFrom[name] + Threshold * TicksPerDay

\* The highest version the registry knows that `spec` admits, 0.0.0 when there is none
Highest(name, spec) ==
  LET admitted == {v \in (DOMAIN PackumentOf(name).time) \ {Created, Modified} :
                     versionSatisfies(v, spec)}
  IN IF admitted = {} THEN <<0, 0, 0>>
     ELSE CHOOSE v \in admitted : \A w \in admitted : VersionCompare(v, w) >= 0

InstalledAsReported(name) ==
  [i \in 1..Len(dependencies[name].versions) |-> Highest(name, Exact(dependencies[name].versions[i]))]

\* C19: in installed-version mode, for a record with a resolved version, the
\* Verdicts are those of the record's versions, one for each that the policy checks
\* let through, whatever the recorded specs; with the mode off or no resolved
\* version, every Verdict is for the version a recorded spec resolves to.
C19_InstalledModeUsesVersions ==
  pc = "validated" =>
    \A name \in PackageNames \cap DOMAIN dependencies :
      /\ (config.production /\ dependencies[name].versions # <<>>) =>
           VerdictVersions(name)
             = SelectSeq(InstalledAsReported(name), LAMBDA v : PolicyPasses(name, v))
      /\ ConstraintMode(name) =>
           /\ Range(VerdictVersions(name))
                \subseteq {Highest(name, spec) : spec \in Range(dependencies[name].specs)}
           /\ (/\ dependencies[name].specs # <<>>
               /\ DOMAIN config.allow = {}
               /\ DOMAIN config.deny = {}
               /\ DOMAIN config.allowFrom = {}) => VerdictVersions(name) # <<>>

\* C19 witness: installed-version mode, the record of "a" holds the spec ^2.0.0 and
\* the version 1.2.3, the registry knows 2.0.0, and the only Verdict is for 1.2.3.
C19_Witness ==
  /\ pc = "validated"
  /\ config.production
  /\ "a" \in DOMAIN dependencies
  /\ dependencies["a"].specs = <<Caret(<<2, 0, 0>>)>>
  /\ dependencies["a"].versions = << <<1, 2, 3>> >>
  /\ <<2, 0, 0>> \in DOMAIN PackumentOf("a").time
  /\ VerdictVersions("a") = << <<1, 2, 3>> >>


\* The effective specs of `name` that no version known to the registry satisfies
UnsatisfiedSpecs(name) ==
  {spec \in Range(EffectiveSpecs(dependencies, name, config)) :
     \A v \in (DOMAIN PackumentOf(name).time) \ {Created, Modified} :
       ~versionSatisfies(v, spec)}

\* C18: an effective spec that no published version satisfies, and that the policy
\* checks let through, gives a Verdict for 0.0.0 with daysSincePublish 0, which is
\* unsafe for every minDays >= 1.
C18_UnresolvedSpecIsUnsafe ==
  pc = "validated" =>
    \A name \in PackageNames :
      (UnsatisfiedSpecs(name) # {} /\ PolicyPasses(name, <<0, 0, 0>>)) =>
        /\ name \in DOMAIN validations
        /\ \E i \in 1..Len(validations[name]) : validations[name][i].version = <<0, 0, 0>>
        /\ \A i \in 1..Len(validations[name]) :
             validations[name][i].version = <<0, 0, 0>> =>
               /\ validations[name][i].daysSincePublish = 0
               /\ Threshold >= 1 => ~validations[name][i].safe


\* main holds the packument of every request of the batch
MetadataDelivered ==
  /\ Len(packuments) = Cardinality(DOMAIN requests)
  /\ \A name \in DOMAIN requests :
       \E i \in 1..Len(packuments) :
         packuments[i].name = name /\ packuments[i].time = requests[name].time

\* C20: validateDependencies starts only when every metadata request of the batch
\* has been answered and main holds every packument; and every step of the advisory
\* fetch and calculation is taken after that and before validateDependencies starts.
C20_ValidationAfterMetadataAndAdvisories ==
  [][/\ (pc' = "validated" /\ pc # "validated") =>
          /\ EveryRequestAnswered
          /\ MetadataDelivered
          /\ advisories.done = Len(advisories.items) \/ AdvisoryFailureLogged
     /\ (\/ advisories' # advisories
         \/ vulnerabilities' # vulnerabilities
         \/ AdvisoryFailureLogged' # AdvisoryFailureLogged) =>
          /\ EveryRequestAnswered
          /\ MetadataDelivered
          /\ validations = EmptyMap
          /\ pc \notin {"validated", "exited"}
          /\ pc' \notin {"validated", "exited"}]_vars

\* C20 witness: both requests of the batch were answered, two advisories were
\* calculated, and validateDependencies has run.
C20_Witness ==
  /\ pc = "validated"
  /\ DOMAIN requests = {"a", "b"}
  /\ EveryRequestAnswered
  /\ Len(packuments) = 2
  /\ advisories.done = 2
  /\ "a" \in DOMAIN vulnerabilities
  /\ "a" \in DOMAIN validations

-----------------------------------------------------------------------------
(* Properties of the dev filter of buildFlatDependencies *)

\* The edges named `name` that are not marked dev
PlainEdges(name) == {e \in tree.edges : e.name = name /\ ~e.dev}

\* The graph with no edge marked dev
WithoutDevMarks ==
  [tree EXCEPT !.edges = {[e EXCEPT !.dev = FALSE] : e \in tree.edges}]

\* C21: with excludeDev, the records are built from the edges not marked dev only:
\* a name has a record exactly when such an edge names it, and the record holds no
\* spec and no target version of a dev edge.  Without excludeDev the mapping is the
\* one the same graph gives with no edge marked dev.
C21_DevEdgesExcluded ==
  pc = "flattened" =>
    /\ config.excludeDev =>
         /\ DOMAIN dependencies = {name \in Names : PlainEdges(name) # {}}
         /\ \A name \in DOMAIN dependencies :
              /\ Range(dependencies[name].specs) \subseteq {e.spec : e \in PlainEdges(name)}
              /\ Range(dependencies[name].versions) \subseteq {e.to : e \in PlainEdges(name)}
    /\ ~config.excludeDev =>
         /\ DOMAIN dependencies = {e.name : e \in tree.edges}
         /\ dependencies = buildFlatDependencies(WithoutDevMarks, Root, config)

\* C21 witness: excludeDev is set, "b" is named by a dev edge only and "a" by an edge
\* that is not dev, and only "a" has a record.
C21_Witness ==
  /\ pc = "flattened"
  /\ config.excludeDev
  /\ \E e \in tree.edges : e.name = "b" /\ e.dev
  /\ PlainEdges("b") = {}
  /\ PlainEdges("a") # {}
  /\ DOMAIN dependencies = {"a"}

-----------------------------------------------------------------------------
(* Properties of loadYarnLockfileDependencies *)

\* The keys of the model that are to be kept, read as name@spec or name@npm:spec,
\* with the name and the range they stand for; every other key is to be skipped
KeptKeys ==
  {<<"a@^1.0.0", "a", [op |-> "^", v |-> <<1, 0, 0>>]>>,
   <<"a@npm:~1.2.0", "a", [op |-> "~", v |-> <<1, 2, 0>>]>>,
   <<"a@^2.0.0", "a", [op |-> "^", v |-> <<2, 0, 0>>]>>,
   <<"b@npm:^1.0.0", "b", [op |-> "^", v |-> <<1, 0, 0>>]>>}

\* The entries of the lockfile that are to be kept for `name`, as <<spec, version>>
KeptFor(name) ==
  {<<pair[1][3], pair[2].version>> :
     pair \in {q \in KeptKeys \X Range(lockfile) : q[1][1] = q[2].key /\ q[1][2] = name}}

\* C22: the mapping loaded from a lockfile has a record exactly for the names of the
\* entries that are neither `__metadata`, nor without a name@spec key, nor of a
\* protocol other than `npm:`, nor of an invalid range; the record holds the spec
\* and the version of each of these entries, whatever entries were skipped around them.
C22_OnlyValidEntriesLoaded ==
  pc = "loaded" =>
    /\ DOMAIN dependencies = {name \in Names : KeptFor(name) # {}}
    /\ \A name \in DOMAIN dependencies :
         /\ Range(dependencies[name].specs) = {pair[1] : pair \in KeptFor(name)}
         /\ Range(dependencies[name].versions) = {pair[2] : pair \in KeptFor(name)}

\* C22 witness: the lockfile holds `__metadata`, then an entry of the patch protocol,
\* then a@npm:~1.2.0, and the mapping is the record of "a" with that one spec.
C22_Witness ==
  /\ pc = "loaded"
  /\ Len(lockfile) = 3
  /\ lockfile[1].key = "__metadata"
  /\ lockfile[2].key = "a@patch:^1.0.0"
  /\ lockfile[3].key = "a@npm:~1.2.0"
  /\ DOMAIN dependencies = {"a"}
  /\ dependencies["a"].specs = <<[op |-> "~", v |-> <<1, 2, 0>>]>>
  /\ dependencies["a"].versions = << <<1, 2, 3>> >>


\* Some request of the batch is still in flight
SomeRequestPending == \E name \in DOMAIN requests : requests[name].state = "pending"

\* C23: every request of the batch is issued in one step, none waiting for another,
\* and the result of processDependencies, success or failure, is delivered only
\* when no request of the batch is still in flight.
C23_ResultAfterEveryRequest ==
  pc \in {"metadata", "exited"} => ~SomeRequestPending

\* C23 amended: every request of the batch is issued in one step, none waiting for
\* another; success is delivered only when every request has been fulfilled, with
\* the packument of each; failure is delivered only after a request has failed, and
\* can be delivered as soon as one has, whatever the state of the other requests.
C23_SuccessWaitsFailureDoesNot ==
  /\ [][/\ (pc # "fetching" /\ pc' = "fetching") =>
             \A name \in DOMAIN requests' : requests'[name].state = "pending"
        /\ (pc = "fetching" /\ pc' = "metadata") =>
             /\ EveryRequestAnswered
             /\ MetadataDelivered'
        /\ (pc = "fetching" /\ pc' = "exited") =>
             /\ SomeRequestFailed
             /\ exitCode' = <<ExitCode.ERROR>>]_vars
  /\ []((pc = "fetching" /\ SomeRequestFailed) => ENABLED MetadataFailed)

\* C23 witness: the failure was delivered, and the process ended, with the request
\* for "a" rejected and the request for "b" still in flight.
C23_Witness ==
  /\ pc = "exited"
  /\ exitCode = <<ExitCode.ERROR>>
  /\ DOMAIN requests = {"a", "b"}
  /\ requests["a"].state = "rejected"
  /\ requests["b"].state = "pending"


\* The lowest version of the universe each spec of a record admits
LowestAdmitted ==
  [spec \in ProcessSpecs |->
     CHOOSE v \in Satisfying(spec) : \A w \in Satisfying(spec) : VersionCompare(v, w) <= 0]

\* The first spec of the record of `name` whose lowest admitted version no other
\* spec of the record exceeds
GreatestMinimum(name) ==
  LET specs == dependencies[name].specs
      best == CHOOSE i \in 1..Len(specs) :
                /\ \A j \in 1..Len(specs) :
                     VersionCompare(LowestAdmitted[specs[j]], LowestAdmitted[specs[i]]) <= 0
                /\ \A j \in 1..(i - 1) :
                     VersionCompare(LowestAdmitted[specs[j]], LowestAdmitted[specs[i]]) < 0
  IN specs[best]

\* C24: the spec of the request for a record is one of the record's own specs: the
\* one whose minimum satisfying version is greatest, the first of them when several
\* have that minimum version.
C24_RequestUsesGreatestOwnSpec ==
  \A name \in DOMAIN requests :
    /\ requests[name].spec \in Range(dependencies[name].specs)
    /\ requests[name].spec = GreatestMinimum(name)

\* C24 amended: when some spec of the record has a minimum satisfying version above
\* 0.0.0, the spec of the request is the record's spec whose minimum satisfying
\* version is greatest, the first of them when several have that minimum version;
\* otherwise (no spec, or only specs that admit 0.0.0) it is `^0.0.0`, whether or
\* not the record has that spec.
C24_RequestUsesGreatestSpecAboveZero ==
  \A name \in DOMAIN requests :
    IF \E spec \in Range(dependencies[name].specs) : LowestAdmitted[spec] # ZeroVersion
    THEN requests[name].spec = GreatestMinimum(name)
    ELSE requests[name].spec = Caret(ZeroVersion)

\* C24 witness: the record of "a" has `~2.0.0` before `^2.0.0`, both of minimum
\* version 2.0.0, and a third spec of lower minimum version; the request is for
\* `a@~2.0.0`.
C24_Witness ==
  /\ pc = "fetching"
  /\ "a" \in DOMAIN requests
  /\ Len(dependencies["a"].specs) = 3
  /\ dependencies["a"].specs[2] = Tilde(<<2, 0, 0>>)
  /\ dependencies["a"].specs[3] = Caret(<<2, 0, 0>>)
  /\ requests["a"].spec = Tilde(<<2, 0, 0>>)


\* The patterns of a configured list, none when the list is not configured
PatternsOf(list) == IF list = <<>> THEN {} ELSE Range(list[1])

\* Regex-style, unanchored match of a name of one character by a pattern: the empty
\* pattern matches every name, a scope pattern matches no unscoped name
PatternMatches(pattern, name) == pattern = "" \/ pattern = name

\* The names that survive the include and exclude lists of the configuration
SurvivingNames ==
  {name \in DOMAIN dependencies :
     /\ config.include = <<>> \/ \E pattern \in PatternsOf(config.include) : PatternMatches(pattern, name)
     /\ ~\E pattern \in PatternsOf(config.exclude) : PatternMatches(pattern, name)}

\* C25: one request is issued for each record whose name matches an include pattern
\* (or no include list is configured) and matches no exclude pattern, and none for
\* any other record, whatever the number of specs of the records.
C25_OneRequestPerSurvivingName ==
  pc \in {"fetching", "metadata", "exited"} => DOMAIN requests = SurvivingNames


\* The nodes whose calls of buildFlatDependencies are in progress, outermost first
Visiting == [i \in 1..Len(stack) |-> stack[i].node]

\* C26: the walk does not recurse into a node it is already visiting, and so it
\* never exhausts the call stack, whatever the children mappings of the graph.
C26_WalkNeverReentersNode ==
  /\ \A i, j \in 1..Len(Visiting) : Visiting[i] = Visiting[j] => i = j
  /\ pc # "overflow"


\* The packages whose metadata was fetched and that have no record
Unrecorded == PackageNames \ DOMAIN dependencies

\* C27: a package that was fetched but has no record is validated against the single
\* spec `*`: it gets at most one Verdict, that Verdict is for the highest version
\* the registry knows (0.0.0 when it knows none), and it gets it whenever the policy
\* checks let that version through.
C27_UnrecordedPackageUsesWildcard ==
  pc = "validated" =>
    \A name \in Unrecorded :
      /\ Len(VerdictVersions(name)) <= 1
      /\ Range(VerdictVersions(name)) \subseteq {Highest(name, Star)}
      /\ PolicyPasses(name, Highest(name, Star)) => Len(VerdictVersions(name)) = 1

\* C27 witness: "a" has no record, the registry knows 1.2.3, 1.3.0 and 2.0.0 of it,
\* and its only Verdict is for 2.0.0.
C27_Witness ==
  /\ pc = "validated"
  /\ "a" \in Unrecorded
  /\ Cardinality(DOMAIN PackumentOf("a").time) = 5
  /\ VerdictVersions("a") = << <<2, 0, 0>> >>


\* C28: a call of processDependencies or of validateDependencies leaves the
\* dependency mapping as it was: the same records, each with the same specs and the
\* same versions in the same order, whether or not installed-version mode applies.
C28_DependencyMappingReadOnly ==
  [][(\/ pc \in {"flattened", "loaded"} /\ pc' = "fetching"
      \/ pc = "resolved" /\ pc' = "validated")
       => /\ DOMAIN dependencies' = DOMAIN dependencies
          /\ \A name \in DOMAIN dependencies :
               /\ dependencies'[name].specs = dependencies[name].specs
               /\ dependencies'[name].versions = dependencies[name].versions]_vars

\* C28 witness: the record of "a" has the specs `^1.0.0` and `~1.2.0` in that order,
\* an order the sort of validateDependencies changes in its copy; "a" was requested
\* and validated in constraint-range mode, and the record is as the loader built it.
C28_Witness ==
  /\ pc = "validated"
  /\ "a" \in DOMAIN validations
  /\ "a" \in DOMAIN requests
  /\ ~config.production
  /\ dependencies = loadYarnLockfileDependencies(lockfile)
  /\ dependencies["a"].specs = <<Caret(<<1, 0, 0>>), Tilde(<<1, 2, 0>>)>>
  /\ SortSpecs(dependencies["a"].specs) # dependencies["a"].specs


\* The version of a Verdict of `name` was published at least the threshold ago
OldEnough(name, verdict) ==
  now - PublishedAt(name, verdict.version) >= Threshold * TicksPerDay

\* C29: the safe flag of every Verdict says whether its version is at least minDays
\* old, whatever its recommendations, and a run that validated ends with exit code 0
\* exactly when every Verdict is old enough, whatever the mode and the lines printed
\* about advisories.
C29_SafetyIgnoresAdvisories ==
  (pc = "exited" /\ ~ErrorLogged) =>
    /\ \A name \in DOMAIN validations :
         \A verdict \in Range(validations[name]) : verdict.safe = OldEnough(name, verdict)
    /\ (exitCode = <<ExitCode.OK>>) =
         (\A name \in DOMAIN validations :
            \A verdict \in Range(validations[name]) : OldEnough(name, verdict))

\* C29 witness: strict mode, the only Verdict is old enough and carries a
\* Recommendation, the package was reported as not safe, and the exit code is 0.
C29_Witness ==
  /\ pc = "exited"
  /\ config.mode = "strict"
  /\ DOMAIN validations = {"a"}
  /\ Len(validations["a"]) = 1
  /\ Len(validations["a"][1].recommendations) > 0
  /\ validations["a"][1].safe
  /\ \E i \in 1..Len(output) : output[i].level = "warn" /\ output[i].message = "is not safe:"
  /\ exitCode = <<ExitCode.OK>>


\* The versions of `resolved` the policy checks let through, for package `name`
PassingVersions(name, resolved) ==
  {i \in 1..Len(resolved) : PolicyPasses(name, resolved[i])}

\* C30: every key of the mapping validateDependencies returns is the name of a
\* supplied packument and maps to a non-empty list of Verdicts, no longer than the
\* effective spec set of the package; a package that has no effective spec, or whose
\* effective specs were all suppressed by the allow, deny or allowFrom check, is not
\* a key of the mapping.
C30_VerdictListsNonEmpty ==
  pc = "validated" =>
    /\ DOMAIN validations \subseteq PackageNames
    /\ \A name \in PackageNames :
         \A resolved \in {ResolvedVersions(name)} :
           /\ name \in DOMAIN validations =>
                /\ Len(validations[name]) >= 1
                /\ Len(validations[name]) <= Len(resolved)
           /\ PassingVersions(name, resolved) = {} => name \notin DOMAIN validations

\* C30 witness: "a" was fetched and has two effective specs, a deny entry suppressed
\* both, and the mapping has no key at all.
C30_Witness ==
  /\ pc = "validated"
  /\ "a" \in PackageNames
  /\ Len(ResolvedVersions("a")) = 2
  /\ "a" \in DOMAIN config.deny
  /\ "a" \notin DOMAIN config.allow
  /\ "a" \notin DOMAIN config.allowFrom
  /\ validations = EmptyMap

====
